---- MODULE Spec2Model ----
(***************************************************************************)
(* A model of the agent execution and orchestration engine of cue:         *)
(*   - the tool dispatcher, Agent.process_tools_with_timeout               *)
(*     (src/src/cue/_agent.py) and OpenAIClient.process_tools_with_timeout *)
(*     (src/src/cue/llm/openai_client.py);                                 *)
(*   - the legacy single-agent loop's process_tool_calls                   *)
(*     (src/src/chat_completion.py);                                       *)
(*   - the handoff protocol and the run loop of AgentManager               *)
(*     (src/src/cue/_agent_manager.py);                                    *)
(*   - the completion loops, send_completion_request of                    *)
(*     src/src/cue/llm/openai_client.py and src/src/chat_completion.py.    *)
(*   - the call of a capability with the arguments of a request, and       *)
(*     registration and clean_up of the AgentManager;                      *)
(*   - two runs in flight on one AgentManager (src/src/cue/_client.py);    *)
(*   - prompt caching (src/src/cue/llm/anthropic_client.py), the edit tool *)
(*     (src/src/cue/tools/edit.py) and the bash tool                       *)
(*     (src/src/cue/tools/bash_tool.py).                                   *)
(* Each part has its own specification (SpecDispatch, SpecLegacy,          *)
(* SpecManager, SpecRun, SpecRunTest, SpecCompletion, SpecArgs,            *)
(* SpecRegistry, SpecTwoRuns, SpecCaching, SpecEdit, SpecBash); a          *)
(* specification leaves the other parts' variables alone.                  *)
(***************************************************************************)
EXTENDS Integers, Sequences, FiniteSets, TLC

VARIABLES
    \* ---- tool dispatcher ----
    impl,            \* which dispatcher runs: "Agent" or "OpenAIClient"
    claude,          \* "claude" in self.config.model.id (Agent only)
    tools,           \* self.tool_manager.tools.keys(): the capability registry
    tool_calls,      \* the batch: sequence of [id, name, shape]
    run,             \* what capability i does when executed: [beh, dur]
    pc,              \* "start", "awaiting", "returned", "raised"
    tasks,           \* the (task, tool_id, tool_name) list of the dispatcher
    tool_responses,  \* the result list the dispatcher accumulates
    awaited,         \* how many tasks have been awaited
    starts,          \* the time at which each await began
    clock,           \* time elapsed since the tasks were created
    response,        \* the value the dispatcher returned
    exc,             \* the exception the dispatcher raised, or "none"
    orphans,         \* ids of the tasks that ran after the first loop raised
    \* ---- legacy loop ----
    l_tool_calls,    \* process_tool_calls' argument: sequence of [id, name, args, beh]
    l_pc,            \* "idle", "start", "returned", "raised"
    l_responses,     \* tool_call_responses, as returned
    \* ---- agent manager ----
    agents,          \* self._agents: id -> config of the registered agents
    active_agent,    \* self.active_agent (an id, or None)
    primary_agent,   \* self.primary_agent (an id, or None)
    history,         \* each agent's message history
    conversation_context, \* each agent's conversation_context.participants
    applied,         \* the HandoffResults applied so far, oldest first
    m_exc,           \* the exception the last manager operation raised, or "none"
    \* ---- the run loop of the agent manager ----
    r_pc,            \* "idle", "loop", "stepping", "dispatching", "returned", "raised"
    run_metadata,    \* the RunMetadata of the run: [max_turns, enable_turn_debug]
    turns_count,     \* turns_count of _execute_run
    r_response,      \* the variable response of _execute_run (None before a step)
    r_result,        \* the value _execute_run returned
    r_batch,         \* the tool calls of the batch in flight
    r_done,          \* how many invocations of that batch have ended
    r_surfaced,      \* the AgentHandoffResults the batch in flight produced
    turn_log,        \* one record per call of should_continue_run
    \* ---- the completion loops (send_completion_request) ----
    c_impl,          \* "OpenAIClient" (openai_client.py) or "legacy" (chat_completion.py)
    c_pc,            \* "idle", "check", "request", "returned"
    metadata,        \* the Metadata of the current call
    c_max_depth,     \* max_depth of the Metadata the caller handed to the loop
    memory,          \* the messages saved to the memory
    requests,        \* the number of transport calls made
    c_result,        \* what the loop returned: "none" until it returns
    c_asked,         \* the depth check of the last call consulted the user
    policy_log,      \* one record per consultation of the user
    \* ---- the call of a capability with the arguments of a request ----
    a_impl,          \* "Agent" (_agent.py), "OpenAIClient" or "legacy" (chat_completion.py)
    a_kwonly,        \* the capability declares its parameters keyword-only
    a_payload,       \* the keys of the request's argument payload, in its order
    a_bound,         \* parameter -> the key whose value it received, or None
    a_pc,            \* "idle", "start", "called", "raised"
    \* ---- registration and clean_up of the agent manager ----
    memory_service,  \* self.memory_service: None, "connected", "disconnected"
    u_pc,            \* clean_up: "idle", "gathering", "done", "raised"
    u_tasks,         \* cleanup_tasks: agent id -> "pending", "returned", "raised"
    reg_log,         \* one record per call of register_agent
    \* ---- two runs in flight on one manager ----
    t_md,            \* the RunMetadata the client hands to every run
    t_pc,            \* run -> "idle", "loop", "stepping", "dispatching", "transferring", ...
    t_turns,         \* run -> turns_count of its _execute_run
    t_step,          \* run -> the agent whose step or dispatcher the run awaits
    t_made,          \* run -> the agents the run made active
    \* ---- prompt caching of the Anthropic client ----
    p_messages,      \* the message list: sequence of [role, content, cache_control]
    p_pc,            \* "idle", "appended", "injected"
    \* ---- the edit tool ----
    e_files,         \* absolute path -> [exists, text]: the file system
    file_history,    \* self._file_history: path -> the texts undo_edit writes back
    e_before,        \* path -> the file before each edit that is not yet undone
    e_last,          \* the last call of edit: its arguments
    e_out,           \* how it ended: "none", "ok", "ToolError"
    e_calls,         \* the number of calls made
    \* ---- the bash tool ----
    b_session,       \* self._session: [id, started, timed_out, process]; id 0 is None
    b_sessions,      \* the number of _BashSession objects created
    b_written,       \* the number of commands written to the stdin of a shell
    b_last,          \* the last call of bash: its arguments
    b_out,           \* how it ended
    b_calls          \* the number of calls made

dvars == <<impl, claude, tools, tool_calls, run, pc, tasks, tool_responses,
           awaited, starts, clock, response, exc, orphans>>
lvars == <<l_tool_calls, l_pc, l_responses>>
mvars == <<agents, active_agent, primary_agent, history, conversation_context,
           applied, m_exc>>
rvars == <<r_pc, run_metadata, turns_count, r_response, r_result, r_batch,
           r_done, r_surfaced, turn_log>>
cvars == <<c_impl, c_pc, metadata, c_max_depth, memory, requests, c_result, c_asked, policy_log>>
avars == <<a_impl, a_kwonly, a_payload, a_bound, a_pc>>
gvars == <<memory_service, u_pc, u_tasks, reg_log>>
tvars == <<t_md, t_pc, t_turns, t_step, t_made>>
pvars == <<p_messages, p_pc>>
evars == <<e_files, file_history, e_before, e_last, e_out, e_calls>>
bvars == <<b_session, b_sessions, b_written, b_last, b_out, b_calls>>
vars == <<dvars, lvars, mvars, rvars, cvars, avars, gvars, tvars, pvars, evars, bvars>>

None == "None"

(***************************************************************************)
(* Bounds of the model.                                                    *)
(***************************************************************************)
\* the largest batch of tool calls
MaxBatch == 2
\* the longest a capability runs, in time units
MaxDur == 5
\* the per-call timeout handed to the dispatcher, in time units
Timeout == 2
\* the number of handoffs applied in one behaviour
MaxHandoffs == 2
\* the longest list of tool calls given to the legacy loop
MaxLegacyCalls == 3

Max(a, b) == IF a >= b THEN a ELSE b

(***************************************************************************)
(* Names.  A tool name is the sequence of its "."-separated segments, so   *)
(* that the OpenAI client's  tool_name.split(".")[0]  is name[1].          *)
(***************************************************************************)
ToolNames == {<<"read_file">>, <<"foo">>, <<"transfer_to_agent">>,
              <<"call_agent">>, <<"read_file", "get">>}

\* the registries a ToolManager may hold
Registries == {{"read_file"}, {"read_file", "call_agent"}}

\* tool_name in self.tool_manager.tools, for the name as the Agent reads it
InRegistry(name, registry) == Len(name) = 1 /\ name[1] \in registry

\* tool_name if "." not in tool_name else tool_name.split(".")[0]
StripName(name) == <<name[1]>>

(***************************************************************************)
(* The text of a result.  info is the stringified return value, the        *)
(* timeout, the stringified exception, or the registry keys.               *)
(***************************************************************************)
\* str(tool_response)
ValueText(v) == [kind |-> "value", name |-> <<>>, info |-> v]
\* f"Timeout while calling tool <{tool_name}> after {timeout}s."
TimeoutText(name, t) == [kind |-> "timeout", name |-> name, info |-> t]
\* f"Error while calling tool <{tool_name}>: {e}"
ErrorText(name, e) == [kind |-> "error", name |-> name, info |-> e]
\* f"Tool '{tool_name}' not found. {self.tool_manager.tools.keys()}"
NotFoundText(name, keys) == [kind |-> "not_found", name |-> name, info |-> keys]

\* ToolResultContent(tool_use_id, content, is_error): it has no name field;
\* is_error FALSE stands for the field left at its default
ToolResultContent(tool_use_id, content, is_error) ==
    [type |-> "ToolResultContent", id |-> tool_use_id, name |-> <<>>,
     content |-> content, is_error |-> is_error]

\* ToolMessage(tool_call_id, name, role="tool", content): no call of the
\* dispatchers gives it an error tag
ToolMessage(tool_call_id, name, content) ==
    [type |-> "ToolMessage", id |-> tool_call_id, name |-> name,
     content |-> content, is_error |-> FALSE]

create_success_response(tool_id, tool_name, content) ==
    IF claude
    THEN ToolResultContent(tool_id, content, FALSE)
    ELSE ToolMessage(tool_id, tool_name, content)

\* mutant: the Anthropic-shape error result is built without is_error=True
create_error_response_untagged(tool_id, tool_name, error_message) ==
    IF claude
    THEN ToolResultContent(tool_id, error_message, FALSE)
    ELSE ToolMessage(tool_id, tool_name, error_message)

create_error_response(tool_id, tool_name, error_message) ==
    IF claude
    THEN ToolResultContent(tool_id, error_message, TRUE)
    ELSE ToolMessage(tool_id, tool_name, error_message)

(***************************************************************************)
(* asyncio.wait_for(task, timeout=timeout) on a task created at time 0     *)
(* that ends (returns or raises, beh) at time dur, awaited from time now.  *)
(* The task's outcome is delivered when it ends before the deadline        *)
(* now + timeout, TimeoutError is raised when it is still running at the   *)
(* deadline; ending exactly at the deadline is a race with both outcomes.  *)
(* Yields the possible [kind, now] pairs.                                  *)
(***************************************************************************)
\* mutant: the task is awaited without a timeout
wait_for_no_timeout(beh, dur, now, timeout) ==
    {[kind |-> beh, now |-> Max(now, dur)]}

wait_for(beh, dur, now, timeout) ==
    (IF dur <= now + timeout
     THEN {[kind |-> beh, now |-> Max(now, dur)]} ELSE {})
    \cup
    (IF dur >= now + timeout /\ dur > now
     THEN {[kind |-> "timeout", now |-> now + timeout]} ELSE {})

(***************************************************************************)
(* Agent.process_tools_with_timeout, first loop (lines 103-126): no await  *)
(* in it, so it runs as one step.  st = [tool_responses, tasks, exc].      *)
(***************************************************************************)
ReservedNames == {<<"call_agent">>, <<"transfer_to_agent">>}

SupportedShape(tool_call) == tool_call.shape \in {"ToolCall", "ToolUseContent"}

\* mutant: the newest task is put in front of the task list
AgentScheduleOne_Lifo(tool_call, st) ==
    IF ~SupportedShape(tool_call)
    THEN [st EXCEPT !.exc = "ValueError"]
    ELSE IF ~InRegistry(tool_call.name, tools) /\ tool_call.name \notin ReservedNames
    THEN [st EXCEPT !.tool_responses =
            Append(@, create_error_response(tool_call.id, tool_call.name,
                          NotFoundText(tool_call.name, tools)))]
    ELSE IF tool_call.name # <<"transfer_to_agent">> /\ ~InRegistry(tool_call.name, tools)
    THEN [st EXCEPT !.exc = "KeyError"]
    ELSE [st EXCEPT !.tasks =
            <<[id |-> tool_call.id, name |-> tool_call.name]>> \o @]

\* mutant: the registry is not consulted before the task is created
AgentScheduleOne_Unchecked(tool_call, st) ==
    IF ~SupportedShape(tool_call)
    THEN [st EXCEPT !.exc = "ValueError"]
    ELSE [st EXCEPT !.tasks =
            Append(@, [id |-> tool_call.id, name |-> tool_call.name])]

\* the body of the loop for one tool call
AgentScheduleOne(tool_call, st) ==
    IF ~SupportedShape(tool_call)
    THEN [st EXCEPT !.exc = "ValueError"]
    ELSE IF ~InRegistry(tool_call.name, tools) /\ tool_call.name \notin ReservedNames
    THEN [st EXCEPT !.tool_responses =
            Append(@, create_error_response(tool_call.id, tool_call.name,
                          NotFoundText(tool_call.name, tools)))]
    ELSE IF tool_call.name # <<"transfer_to_agent">> /\ ~InRegistry(tool_call.name, tools)
    THEN [st EXCEPT !.exc = "KeyError"]
    ELSE [st EXCEPT !.tasks =
            Append(@, [id |-> tool_call.id, name |-> tool_call.name])]

RECURSIVE AgentSchedule(_, _)
AgentSchedule(i, st) ==
    IF i > Len(tool_calls) \/ st.exc # "none"
    THEN st
    ELSE AgentSchedule(i + 1, AgentScheduleOne(tool_calls[i], st))

\* mutant: once a sibling has timed out, the invocations awaited after it are
\* reported as timed out too
AgentAwaitResponse_Poisoned(task, kind) ==
    IF \E k \in 1..Len(tool_responses) : tool_responses[k].content.kind = "timeout"
    THEN create_error_response(task.id, task.name, TimeoutText(task.name, Timeout))
    ELSE CASE kind = "return" ->
                create_success_response(task.id, task.name, ValueText(task.id))
           [] kind = "timeout" ->
                create_error_response(task.id, task.name, TimeoutText(task.name, Timeout))
           [] kind = "raise" ->
                create_error_response(task.id, task.name, ErrorText(task.name, task.id))

\* the result appended for an awaited task (lines 129-137)
AgentAwaitResponse(task, kind) ==
    CASE kind = "return" ->
           create_success_response(task.id, task.name, ValueText(task.id))
      [] kind = "timeout" ->
           create_error_response(task.id, task.name, TimeoutText(task.name, Timeout))
      [] kind = "raise" ->
           create_error_response(task.id, task.name, ErrorText(task.name, task.id))

HasSuccess(resps) == \E k \in 1..Len(resps) : resps[k].content.kind = "value"

\* lines 139-146: the wrapping of the results.  On a claude model line 141
\* reads tool_response (the last return value, unbound when no task
\* returned) and line 142 passes the positional value
\* (tool_result_message == tool_result_message) = True to the pydantic
\* model ToolResponseWrapper, which raises TypeError.  On another model line
\* 144 passes tool_messages alone: the ToolResponseWrapper of
\* schemas/tool_response_wrapper.py declares a required field model and
\* raises ValidationError without it, a declaration whose fields are all
\* optional returns the wrapper; both outcomes are kept.
AgentWrap(resps) ==
    IF claude
    THEN {[pc |-> "raised", response |-> <<>>,
           exc |-> IF HasSuccess(resps) THEN "TypeError" ELSE "UnboundLocalError"]}
    ELSE {[pc |-> "returned", response |-> resps, exc |-> "none"],
          [pc |-> "raised", response |-> <<>>, exc |-> "ValidationError"]}

AgentDispatch ==
    /\ impl = "Agent" /\ pc = "start"
    /\ LET st == AgentSchedule(1, [tool_responses |-> <<>>, tasks |-> <<>>, exc |-> "none"])
       IN  /\ tasks' = st.tasks
           /\ tool_responses' = st.tool_responses
           /\ IF st.exc # "none"
              THEN pc' = "raised" /\ exc' = st.exc /\ response' = <<>>
              ELSE IF st.tasks = <<>>
              THEN \E w \in AgentWrap(st.tool_responses) :
                      pc' = w.pc /\ exc' = w.exc /\ response' = w.response
              ELSE pc' = "awaiting" /\ exc' = "none" /\ response' = <<>>
    /\ UNCHANGED <<impl, claude, tools, tool_calls, run, orphans, awaited, starts, clock>>
    /\ UNCHANGED <<lvars, mvars, rvars, cvars, avars, gvars, tvars, pvars, evars, bvars>>

\* one iteration of the second loop (lines 128-137); after the last one the
\* wrapping follows without another await
AgentAwait ==
    /\ impl = "Agent" /\ pc = "awaiting" /\ awaited < Len(tasks)
    /\ LET task == tasks[awaited + 1]
       IN \E o \in wait_for(run[task.id].beh, run[task.id].dur, clock, Timeout) :
            LET resps == Append(tool_responses, AgentAwaitResponse(task, o.kind))
            IN  /\ tool_responses' = resps
                /\ awaited' = awaited + 1
                /\ starts' = Append(starts, clock)
                /\ clock' = o.now
                /\ IF awaited + 1 = Len(tasks)
                   THEN \E w \in AgentWrap(resps) :
                           pc' = w.pc /\ exc' = w.exc /\ response' = w.response
                   ELSE UNCHANGED <<pc, exc, response>>
    /\ UNCHANGED <<impl, claude, tools, tool_calls, run, orphans, tasks>>
    /\ UNCHANGED <<lvars, mvars, rvars, cvars, avars, gvars, tvars, pvars, evars, bvars>>

\* the first loop raised
FirstLoopRaised == pc = "raised" /\ exc \in {"ValueError", "KeyError"}

\* a task that asyncio.create_task (line 125) scheduled before the first
\* loop raised: nothing cancels it, and the event loop runs it (run_tool,
\* lines 148-153) when the program awaits again after the exception; a
\* program that ends with the exception never takes this step
OrphanedTaskRuns ==
    /\ impl = "Agent" /\ FirstLoopRaised
    /\ \E k \in 1..Len(tasks) :
         /\ tasks[k].id \notin orphans
         /\ orphans' = orphans \cup {tasks[k].id}
    /\ UNCHANGED <<impl, claude, tools, tool_calls, run, pc, tasks, tool_responses,
                   awaited, starts, clock, response, exc>>
    /\ UNCHANGED <<lvars, mvars, rvars, cvars, avars, gvars, tvars, pvars, evars, bvars>>

(***************************************************************************)
(* OpenAIClient.process_tools_with_timeout.                                *)
(***************************************************************************)
\* the body of the first loop for one tool call (lines 146-165)
ClientScheduleOne(tool_call, st) ==
    LET tool_name == StripName(tool_call.name)
    IN  IF ~InRegistry(tool_name, tools)
        THEN [st EXCEPT !.tool_responses =
                Append(@, ToolMessage(tool_call.id, tool_name,
                                      NotFoundText(tool_name, tools)))]
        ELSE [st EXCEPT !.tasks =
                Append(@, [id |-> tool_call.id, name |-> tool_call.name])]

RECURSIVE ClientSchedule(_, _)
ClientSchedule(i, st) ==
    IF i > Len(tool_calls)
    THEN st
    ELSE ClientSchedule(i + 1, ClientScheduleOne(tool_calls[i], st))

\* the result appended for an awaited task (lines 167-198)
ClientAwaitResponse(task, kind) ==
    CASE kind = "return" -> ToolMessage(task.id, task.name, ValueText(task.id))
      [] kind = "timeout" -> ToolMessage(task.id, task.name, TimeoutText(task.name, Timeout))
      [] kind = "raise" -> ToolMessage(task.id, task.name, ErrorText(task.name, task.id))

ClientDispatch ==
    /\ impl = "OpenAIClient" /\ pc = "start"
    /\ LET st == ClientSchedule(1, [tool_responses |-> <<>>, tasks |-> <<>>, exc |-> "none"])
       IN  /\ tasks' = st.tasks
           /\ tool_responses' = st.tool_responses
           /\ IF st.tasks = <<>>
              THEN pc' = "returned" /\ response' = st.tool_responses
              ELSE pc' = "awaiting" /\ response' = <<>>
    /\ UNCHANGED <<impl, claude, tools, tool_calls, run, orphans, awaited, starts, clock, exc>>
    /\ UNCHANGED <<lvars, mvars, rvars, cvars, avars, gvars, tvars, pvars, evars, bvars>>

ClientAwait ==
    /\ impl = "OpenAIClient" /\ pc = "awaiting" /\ awaited < Len(tasks)
    /\ LET task == tasks[awaited + 1]
       IN \E o \in wait_for(run[task.id].beh, run[task.id].dur, clock, Timeout) :
            LET resps == Append(tool_responses, ClientAwaitResponse(task, o.kind))
            IN  /\ tool_responses' = resps
                /\ awaited' = awaited + 1
                /\ starts' = Append(starts, clock)
                /\ clock' = o.now
                /\ IF awaited + 1 = Len(tasks)
                   THEN pc' = "returned" /\ response' = resps
                   ELSE UNCHANGED <<pc, response>>
    /\ UNCHANGED <<impl, claude, tools, tool_calls, run, orphans, tasks, exc>>
    /\ UNCHANGED <<lvars, mvars, rvars, cvars, avars, gvars, tvars, pvars, evars, bvars>>

(***************************************************************************)
(* The dispatcher's specification: a batch, a registry and the behaviour   *)
(* of each capability are drawn, then the dispatcher runs on them.         *)
(***************************************************************************)
\* the request shapes a provider's response holds, and a foreign object
ShapesOf(i, c) ==
    IF i = "OpenAIClient" THEN {"ToolCall"}
    ELSE IF c THEN {"ToolUseContent", "Unsupported"}
    ELSE {"ToolCall", "Unsupported"}

\* whether the dispatcher creates a task for the tool call
Schedules(i, registry, tool_call) ==
    IF i = "OpenAIClient"
    THEN InRegistry(StripName(tool_call.name), registry)
    ELSE /\ tool_call.shape # "Unsupported"
         /\ InRegistry(tool_call.name, registry) \/ tool_call.name = <<"transfer_to_agent">>

Behaviours == [beh : {"return", "raise"}, dur : 0..MaxDur]

Idle == [beh |-> "return", dur |-> 0]

AgentIds == {"a", "b", "c"}

LegacyIdle ==
    l_tool_calls = <<>> /\ l_pc = "idle" /\ l_responses = <<>>

ManagerIdle ==
    /\ agents = <<>> /\ active_agent = None /\ primary_agent = None
    /\ history = [a \in AgentIds |-> <<>>]
    /\ conversation_context = [a \in AgentIds |-> <<>>]
    /\ applied = <<>> /\ m_exc = "none"

\* response = None (line 62 of _agent_manager.py), as a record
NoResponse == [type |-> "None", error |-> FALSE, text |-> "", tool_calls |-> <<>>]

RunIdle ==
    /\ r_pc = "idle" /\ run_metadata = [max_turns |-> 0, enable_turn_debug |-> FALSE]
    /\ turns_count = 0 /\ r_response = NoResponse /\ r_result = NoResponse
    /\ r_batch = <<>> /\ r_done = 0 /\ r_surfaced = <<>> /\ turn_log = <<>>

CompletionIdle ==
    /\ c_impl = "legacy" /\ c_pc = "idle"
    /\ metadata = [current_depth |-> 0, total_depth |-> 0, max_depth |-> 0, request_count |-> 0,
                   session_id |-> "", last_user_message |-> ""]
    /\ c_max_depth = 0
    /\ memory = <<>> /\ requests = 0 /\ c_result = "none"
    /\ c_asked = FALSE /\ policy_log = <<>>

ArgsIdle ==
    /\ a_impl = "Agent" /\ a_kwonly = FALSE /\ a_payload = <<>>
    /\ a_bound = <<>> /\ a_pc = "idle"

RegistryIdle ==
    /\ memory_service = None /\ u_pc = "idle" /\ u_tasks = <<>> /\ reg_log = <<>>

Runs == {1, 2}

TwoRunsIdle ==
    /\ t_md = [max_turns |-> 0, enable_turn_debug |-> FALSE]
    /\ t_pc = [i \in Runs |-> "idle"] /\ t_turns = [i \in Runs |-> 0]
    /\ t_step = [i \in Runs |-> None] /\ t_made = [i \in Runs |-> {}]

CachingIdle == p_messages = <<>> /\ p_pc = "idle"

\* self._session = None
NoSession == [id |-> 0, started |-> FALSE, timed_out |-> FALSE, process |-> "none"]

BashIdle ==
    /\ b_session = NoSession /\ b_sessions = 0 /\ b_written = 0
    /\ b_last = <<>> /\ b_out = "none" /\ b_calls = 0

EditIdle ==
    /\ e_files = <<>> /\ file_history = <<>> /\ e_before = <<>>
    /\ e_last = <<>> /\ e_out = "none" /\ e_calls = 0

DispatchIdle ==
    /\ impl = "Agent" /\ claude = FALSE /\ tools = {} /\ tool_calls = <<>>
    /\ run = <<>> /\ pc = "idle" /\ tasks = <<>> /\ tool_responses = <<>>
    /\ awaited = 0 /\ starts = <<>> /\ clock = 0
    /\ response = <<>> /\ exc = "none" /\ orphans = {}

InitDispatch ==
    /\ impl \in {"Agent", "OpenAIClient"}
    /\ claude \in BOOLEAN
    /\ impl = "OpenAIClient" => ~claude
    /\ tools \in Registries
    /\ \E n \in 0..MaxBatch :
         /\ tool_calls \in [1..n -> [id : 1..n, name : ToolNames, shape : ShapesOf(impl, claude)]]
         /\ \A k \in 1..n : tool_calls[k].id = k
         /\ run \in [1..n -> Behaviours]
         /\ \A k \in 1..n : ~Schedules(impl, tools, tool_calls[k]) => run[k] = Idle
    /\ pc = "start" /\ tasks = <<>> /\ tool_responses = <<>>
    /\ awaited = 0 /\ starts = <<>> /\ clock = 0
    /\ response = <<>> /\ exc = "none" /\ orphans = {}
    /\ LegacyIdle /\ ManagerIdle /\ RunIdle /\ ArgsIdle /\ RegistryIdle /\ CompletionIdle /\ TwoRunsIdle /\ CachingIdle /\ EditIdle /\ BashIdle

NextDispatch ==
    \/ AgentDispatch
    \/ AgentAwait
    \/ ClientDispatch
    \/ ClientAwait
    \/ OrphanedTaskRuns

SpecDispatch == InitDispatch /\ [][NextDispatch]_vars

(***************************************************************************)
(* Properties of the dispatcher.                                           *)
(***************************************************************************)
AllSupported == \A k \in 1..Len(tool_calls) : SupportedShape(tool_calls[k])

Finished == pc \in {"returned", "raised"}

\* both loops ran to their end (the first loop did not raise)
LoopsDone == pc = "returned" \/ (pc = "raised" /\ exc \in {"TypeError", "UnboundLocalError", "ValidationError"})

\* the positions of the results that carry invocation id i
ResultsFor(resps, i) == {k \in 1..Len(resps) : resps[k].id = i}

Ids(s) == [k \in 1..Len(s) |-> s[k].id]

IsScheduled(tool_call) == Schedules(impl, tools, tool_call)

IsNotScheduled(tool_call) == ~Schedules(impl, tools, tool_call)

\* the behaviour of the j-th task
TaskRun(j) == run[tasks[j].id]

\* the j-th task ends exactly when its await's timeout expires: a race
AtDeadline(j) == TaskRun(j).dur = starts[j] + Timeout

\* no await so far was such a race; the claims about timing are stated for
\* the batches without one
NoRace == \A j \in 1..awaited : ~AtDeadline(j)

\* every name of the batch is a registered capability, an unknown name or
\* transfer_to_agent (no call_agent, the reserved name looked up in the
\* registry without a check)
PlainNames == \A k \in 1..Len(tool_calls) : tool_calls[k].name # <<"call_agent">>

\* C1 (as claimed): every dispatch of a batch of N supported-shape requests,
\* whatever mix of normal return, unknown name, timeout and exception occurs,
\* returns a batch of exactly N results in which each request's invocation
\* id appears on exactly one result.
C1_OneResultPerRequest ==
    (Finished /\ AllSupported /\ PlainNames) =>
        /\ pc = "returned"
        /\ Len(response) = Len(tool_calls)
        /\ \A k \in 1..Len(tool_calls) :
             Cardinality(ResultsFor(response, tool_calls[k].id)) = 1

C3_NeverRaises == AllSupported => pc # "raised"

\* C4 (as claimed): every awaited invocation that runs longer than the
\* timeout, at any position of the batch, yields the timeout error carrying
\* the configured timeout, and no value.
C4_LongerThanTimeout ==
    \A j \in 1..awaited :
        (TaskRun(j).dur > Timeout /\ NoRace) =>
            \A k \in ResultsFor(tool_responses, tasks[j].id) :
                tool_responses[k].content = TimeoutText(tasks[j].name, Timeout)

\* C4 (amended): every invocation still running when the timeout has passed
\* since the dispatcher began to await it yields exactly one result, the
\* timeout error carrying the configured timeout, and its return value is
\* discarded; for the first scheduled invocation the await begins when the
\* tasks are created, so that is: when it runs longer than the timeout.
C4_StillRunningAtDeadline ==
    \A j \in 1..awaited :
        /\ (TaskRun(j).dur > starts[j] + Timeout) =>
             /\ Cardinality(ResultsFor(tool_responses, tasks[j].id)) = 1
             /\ \A k \in ResultsFor(tool_responses, tasks[j].id) :
                  tool_responses[k].content = TimeoutText(tasks[j].name, Timeout)
        /\ j = 1 => starts[j] = 0

\* C4 witness: an invocation that is not the first one times out, awaited
\* from a time later than the tasks' creation.
C4_Witness ==
    \E j \in 2..awaited :
        /\ starts[j] > 0 /\ TaskRun(j).dur > starts[j] + Timeout
        /\ \E k \in ResultsFor(tool_responses, tasks[j].id) :
             tool_responses[k].content.kind = "timeout"

\* how an invocation ends when it is the only one of its batch
KindAlone(r) == IF r.dur > Timeout THEN "timeout" ELSE r.beh

ResultKind(kind) ==
    CASE kind = "return" -> "value" [] kind = "raise" -> "error" [] kind = "timeout" -> "timeout"

\* C5 (as claimed): an invocation ends as its own behaviour and duration
\* decide (as it would alone in its batch), whatever its siblings do.
C5_OwnOutcomeOnly ==
    \A j \in 1..awaited :
        NoRace =>
            \A k \in ResultsFor(tool_responses, tasks[j].id) :
                tool_responses[k].content.kind = ResultKind(KindAlone(TaskRun(j)))

\* C5 (amended): a sibling never turns an invocation's result into an error
\* or into a sibling's result: an invocation that ends within the timeout
\* always yields its own outcome, any invocation yields its own outcome or
\* the timeout error, and the timeout error only when it ran at least as
\* long as the timeout; whether a longer-running invocation times out
\* depends on how long the dispatcher awaited the siblings before it.
C5_SiblingsOnlyAddTime ==
    \A j \in 1..awaited :
        /\ Cardinality(ResultsFor(tool_responses, tasks[j].id)) = 1
        /\ \A k \in ResultsFor(tool_responses, tasks[j].id) :
             LET kind == tool_responses[k].content.kind
             IN  /\ kind \in {ResultKind(TaskRun(j).beh), "timeout"}
                 /\ TaskRun(j).dur < Timeout => kind = ResultKind(TaskRun(j).beh)
                 /\ kind = "timeout" => TaskRun(j).dur >= Timeout
                 /\ kind = "value" => tool_responses[k].content.info = tasks[j].id
                 /\ kind = "error" => tool_responses[k].content.info = tasks[j].id

\* C5 witness: an invocation that ends within the timeout yields its own
\* value after a sibling timed out, and an invocation that runs longer than
\* the timeout yields its own value too, after a sibling that timed out.
C5_Witness ==
    /\ awaited = 2
    /\ \E k \in ResultsFor(tool_responses, tasks[1].id) :
         tool_responses[k].content.kind = "timeout"
    /\ TaskRun(2).dur > Timeout
    /\ \E k \in ResultsFor(tool_responses, tasks[2].id) :
         tool_responses[k].content.kind = "value"

\* the name the dispatcher looks up: the OpenAI client cuts it at its first "."
LookupName(tool_call) ==
    IF impl = "OpenAIClient" THEN StripName(tool_call.name) ELSE tool_call.name

\* the first loop has handled request k (it did not raise before it)
Reached(k) ==
    /\ pc # "start"
    /\ exc \in {"ValueError", "KeyError"} => k <= Len(tool_responses) + Len(tasks)

HasTask(i) == \E j \in 1..Len(tasks) : tasks[j].id = i

C7_ErrorsTagged ==
    \A k \in 1..Len(tool_responses) :
        tool_responses[k].is_error <=> tool_responses[k].content.kind # "value"

\* C7 (amended): in the Anthropic shape (ToolResultContent, built on a claude
\* model) every result for a not-found name, a timeout or an exception is
\* tagged is_error and every result for a normal return is not; in the
\* OpenAI shape (ToolMessage) no result carries an error tag, an error shows
\* in the content text only.
C7_ErrorsTaggedForClaude ==
    \A k \in 1..Len(tool_responses) :
        LET r == tool_responses[k]
        IN  /\ r.type = (IF claude THEN "ToolResultContent" ELSE "ToolMessage")
            /\ r.type = "ToolResultContent" => (r.is_error <=> r.content.kind # "value")
            /\ r.type = "ToolMessage" => ~r.is_error

\* C7 witness: on a claude model, an untagged value result followed by an
\* error-tagged timeout result.
C7_Witness ==
    /\ claude /\ Len(tool_responses) = 2
    /\ tool_responses[1].content.kind = "value" /\ ~tool_responses[1].is_error
    /\ tool_responses[2].content.kind = "timeout" /\ tool_responses[2].is_error

\* C33 (as claimed): when the dispatcher raises while it goes through the
\* batch (unsupported shape, or a reserved name that the registry lacks),
\* no capability of the batch has been executed and none will be: no task
\* was awaited and no task of the batch runs afterwards.
C33_RaisedBatchHasNoEffect ==
    FirstLoopRaised => awaited = 0 /\ orphans = {}

(***************************************************************************)
(* The legacy single-agent loop: process_tool_calls of chat_completion.py.  *)
(* It is synchronous, so a call is one step.                               *)
(***************************************************************************)
\* the keys of ToolManager().tools (src/src/tools/tool_manager.py)
LegacyTools == {"read_file", "write_to_file", "scan_folder",
                "run_python_script", "execute_shell_command"}

LegacyNames == {"read_file", "run_python_script", "foo"}

\* the body of the loop (lines 56-74): json.loads runs outside the try; an
\* unregistered name gives function_to_call = None, whose call raises
\* TypeError inside the try; the except branch only assigns
\* function_response and appends nothing
process_one_tool_call(tool_call, st) ==
    IF tool_call.args = "malformed"
    THEN [st EXCEPT !.exc = "JSONDecodeError"]
    ELSE IF tool_call.name \notin LegacyTools \/ tool_call.beh = "raise"
    THEN st
    ELSE [st EXCEPT !.tool_call_responses =
            Append(@, ToolMessage(tool_call.id, tool_call.name, ValueText(tool_call.id)))]

RECURSIVE process_tool_calls_from(_, _, _)
process_tool_calls_from(calls, i, st) ==
    IF i > Len(calls) \/ st.exc # "none"
    THEN st
    ELSE process_tool_calls_from(calls, i + 1, process_one_tool_call(calls[i], st))

process_tool_calls(calls) ==
    process_tool_calls_from(calls, 1, [tool_call_responses |-> <<>>, exc |-> "none"])

ProcessToolCalls ==
    /\ l_pc = "start"
    /\ LET st == process_tool_calls(l_tool_calls)
       IN  IF st.exc # "none"
           THEN l_pc' = "raised" /\ l_responses' = <<>>
           ELSE l_pc' = "returned" /\ l_responses' = st.tool_call_responses
    /\ UNCHANGED l_tool_calls
    /\ UNCHANGED <<dvars, mvars, rvars, cvars, avars, gvars, tvars, pvars, evars, bvars>>

InitLegacy ==
    /\ \E n \in 0..MaxLegacyCalls :
         /\ l_tool_calls \in [1..n -> [id : 1..n, name : LegacyNames,
                                       args : {"json", "malformed"},
                                       beh : {"return", "raise"}]]
         /\ \A k \in 1..n : l_tool_calls[k].id = k
    /\ l_pc = "start" /\ l_responses = <<>>
    /\ DispatchIdle /\ ManagerIdle /\ RunIdle /\ ArgsIdle /\ RegistryIdle /\ CompletionIdle /\ TwoRunsIdle /\ CachingIdle /\ EditIdle /\ BashIdle

NextLegacy == ProcessToolCalls

SpecLegacy == InitLegacy /\ [][NextLegacy]_vars

\* C8 (as claimed): for every list of N tool calls with well-formed
\* arguments process_tool_calls returns N tool messages, one per
\* tool_call_id, also when a called function raises or the name is not
\* registered.
C8_LegacyOneMessagePerCall ==
    (l_pc \in {"returned", "raised"}
     /\ \A k \in 1..Len(l_tool_calls) : l_tool_calls[k].args = "json") =>
        /\ l_pc = "returned"
        /\ Len(l_responses) = Len(l_tool_calls)
        /\ \A k \in 1..Len(l_tool_calls) :
             Cardinality(ResultsFor(l_responses, l_tool_calls[k].id)) = 1

(***************************************************************************)
(* The agent manager: registration and the handoff protocol.               *)
(***************************************************************************)
Msgs == {"m1", "m2"}

\* AgentHandoffResult.context: one turn (is_list FALSE, turns of length 1)
\* or a list of turns
Contexts ==
    [is_list : {FALSE}, turns : {<<m>> : m \in Msgs}]
    \cup [is_list : {TRUE}, turns : {<<>>, <<"m1", "m2">>, <<"m2", "m1">>}]

HandoffResults ==
    [from_agent_id : AgentIds, to_agent_id : AgentIds, context : Contexts]

\* register_agent reads config.id and config.is_primary only; is_test is
\* read by should_continue_run, and RunRegistries varies it for the run loop
AgentConfigs == [id : AgentIds, is_primary : BOOLEAN, is_test : {FALSE}]

\* Agent.add_message: the history is an ordered, append-only list of turns
add_message(hist, agent_id, msg) == [hist EXCEPT ![agent_id] = Append(@, msg)]

RECURSIVE add_messages(_, _, _, _)
\* for msg in hand_off_result.context: self.active_agent.add_message(msg)
add_messages(hist, agent_id, msgs, i) ==
    IF i > Len(msgs)
    THEN hist
    ELSE add_messages(add_message(hist, agent_id, msgs[i]), agent_id, msgs, i + 1)

\* mutant: the participants are merged into the set the agent already holds
HandOffContext_Merge(cc, h) ==
    [cc EXCEPT ![h.to_agent_id] = @ \o <<h.from_agent_id, h.to_agent_id>>]

\* lines 139-141: the new active agent's conversation_context
HandOffContext(cc, h) ==
    [cc EXCEPT ![h.to_agent_id] = <<h.from_agent_id, h.to_agent_id>>]

\* mutant: the carried context is added to the agent that hands off
HandOffHistory_ToSender(hist, h) ==
    IF h.context.is_list
    THEN add_messages(hist, h.from_agent_id, h.context.turns, 1)
    ELSE add_message(hist, h.from_agent_id, h.context.turns[1])

\* lines 142-146: the carried context is added to the new active agent
HandOffHistory(hist, h) ==
    IF h.context.is_list
    THEN add_messages(hist, h.to_agent_id, h.context.turns, 1)
    ELSE add_message(hist, h.to_agent_id, h.context.turns[1])

\* mutant: the context is set and the carried turns are added before the
\* target is looked up
handle_hand_off_result_LateLookup(h) ==
    IF h.to_agent_id \notin DOMAIN agents
    THEN /\ m_exc' = "KeyError"
         /\ conversation_context' = HandOffContext(conversation_context, h)
         /\ history' = HandOffHistory(history, h)
         /\ UNCHANGED <<agents, active_agent, primary_agent, applied>>
    ELSE /\ active_agent' = h.to_agent_id
         /\ conversation_context' = HandOffContext(conversation_context, h)
         /\ history' = HandOffHistory(history, h)
         /\ applied' = Append(applied, h)
         /\ m_exc' = "none"
         /\ UNCHANGED <<agents, primary_agent>>

\* AgentManager._handle_hand_off_result (no await before its last line)
handle_hand_off_result(h) ==
    IF h.to_agent_id \notin DOMAIN agents
    THEN /\ m_exc' = "KeyError"
         /\ UNCHANGED <<agents, active_agent, primary_agent, history,
                        conversation_context, applied>>
    ELSE /\ active_agent' = h.to_agent_id
         /\ conversation_context' = HandOffContext(conversation_context, h)
         /\ history' = HandOffHistory(history, h)
         /\ applied' = Append(applied, h)
         /\ m_exc' = "none"
         /\ UNCHANGED <<agents, primary_agent>>

HandleHandOffResult ==
    /\ Len(applied) < MaxHandoffs
    /\ \E h \in HandoffResults : handle_hand_off_result(h)
    /\ UNCHANGED <<dvars, lvars, rvars, cvars, avars, gvars, tvars, pvars, evars, bvars>>

\* the Agent the registry holds for a config: Agent(config=config, ...)
AgentOf(config) == [is_primary |-> config.is_primary, is_test |-> config.is_test]

\* mutant: a registration always creates the Agent, also for a registered id
register_agent_Overwrite(config) ==
    /\ agents' = [a \in DOMAIN agents \cup {config.id} |->
                    IF a = config.id THEN AgentOf(config) ELSE agents[a]]
    /\ history' = [history EXCEPT ![config.id] = <<>>]
    /\ conversation_context' = [conversation_context EXCEPT ![config.id] = <<>>]
    /\ primary_agent' = IF config.is_primary THEN config.id ELSE primary_agent

\* the body of AgentManager.register_agent (lines 201-212)
register_agent(config) ==
    IF config.id \in DOMAIN agents
    THEN UNCHANGED <<agents, primary_agent, history, conversation_context>>
    ELSE /\ agents' = (config.id :> AgentOf(config)) @@ agents
         /\ history' = [history EXCEPT ![config.id] = <<>>]
         /\ conversation_context' = [conversation_context EXCEPT ![config.id] = <<>>]
         /\ primary_agent' = IF config.is_primary THEN config.id ELSE primary_agent

\* AgentManager.register_agent
RegisterAgent ==
    /\ \E config \in AgentConfigs : register_agent(config)
    /\ m_exc' = "none"
    /\ UNCHANGED <<active_agent, applied>>
    /\ UNCHANGED <<dvars, lvars, rvars, cvars, avars, gvars, tvars, pvars, evars, bvars>>

InitManager == ManagerIdle /\ DispatchIdle /\ LegacyIdle /\ RunIdle /\ ArgsIdle /\ RegistryIdle /\ CompletionIdle /\ TwoRunsIdle /\ CachingIdle /\ EditIdle /\ BashIdle

NextManager ==
    \/ RegisterAgent
    \/ HandleHandOffResult

SpecManager == InitManager /\ [][NextManager]_vars

(***************************************************************************)
(* Properties of the handoff protocol.                                     *)
(***************************************************************************)
Participants(cc) == {cc[k] : k \in 1..Len(cc)}

Last(s) == s[Len(s)]

\* this step applies a HandoffResult
HandoffApplied == Len(applied') = Len(applied) + 1

\* C9: applying a HandoffResult sets the new active agent's
\* conversation_context to exactly the participants {from_agent_id,
\* to_agent_id}, whatever set it held before, and applying the same
\* HandoffResult again leaves that participant set as it is.
C9_HandoffResetsContext ==
    [][HandoffApplied =>
         LET h == Last(applied')
         IN  /\ active_agent' = h.to_agent_id
             /\ Participants(conversation_context'[active_agent']) =
                  {h.from_agent_id, h.to_agent_id}
             /\ (applied # <<>> /\ Last(applied) = h) =>
                  Participants(conversation_context'[active_agent']) =
                    Participants(conversation_context[active_agent'])]_vars

\* C9 witness: a second handoff to the same agent from another agent left
\* the context without the first handoff's sender.
C9_Witness ==
    /\ Len(applied) = 2
    /\ applied[1].to_agent_id = applied[2].to_agent_id
    /\ applied[1].from_agent_id \notin {applied[2].from_agent_id, applied[2].to_agent_id}
    /\ Participants(conversation_context[active_agent]) =
         {applied[2].from_agent_id, applied[2].to_agent_id}

C32_UnknownTargetChangesNothing ==
    [][/\ (m_exc' = "KeyError") =>
            /\ active_agent' = active_agent
            /\ conversation_context' = conversation_context
            /\ history' = history
            /\ agents' = agents /\ applied' = applied
       /\ HandoffApplied =>
            /\ Last(applied').to_agent_id \in DOMAIN agents
            /\ m_exc' = "none"]_vars

\* C32 witness: after a handoff to "b" was applied, a handoff to an agent
\* that is not registered failed; "b" is still active and holds what the
\* first handoff brought.
C32_Witness ==
    /\ m_exc = "KeyError"
    /\ Len(applied) = 1 /\ applied[1].to_agent_id = "b"
    /\ active_agent = "b"
    /\ history["b"] = applied[1].context.turns /\ history["b"] # <<>>
    /\ AgentIds \ DOMAIN agents # {}

\* the registered agents whose config has is_primary set
Primaries == {a \in DOMAIN agents : agents[a].is_primary}

\* C25 (as claimed): at most one registered agent has is_primary set, and
\* primary_agent designates that agent.
C25_AtMostOnePrimary ==
    /\ Cardinality(Primaries) <= 1
    /\ Primaries # {} => primary_agent \in Primaries

(***************************************************************************)
(* The run loop of the agent manager: AgentManager.run, _execute_run and   *)
(* should_continue_run.  The agent's step (Agent.run), Agent.chat_with_agent *)
(* and the capability transfer_to_agent are not part of the sources; a     *)
(* step is modelled by the response it returns, the other two as the       *)
(* specification describes them.                                           *)
(***************************************************************************)
\* the largest RunMetadata.max_turns
MaxTurns == 2
\* the number of turns after which the model stops following a run
MaxTurnsCount == 3

RunMetadatas == [max_turns : 0..MaxTurns, enable_turn_debug : BOOLEAN]

UserMessage == "hello"

\* a request of a supported provider shape for the capability read_file
ReadFile == [name |-> "read_file", to |-> None, shape |-> "ToolCall"]

\* a request of a supported provider shape for transfer_to_agent
TransferTo(t) == [name |-> "transfer_to_agent", to |-> t, shape |-> "ToolCall"]

\* an object that is neither a ToolCall nor a ToolUseContent
Foreign == [name |-> "read_file", to |-> None, shape |-> "Unsupported"]

\* the tool invocations a response may request
RunToolCalls ==
    {ReadFile, Foreign} \cup {TransferTo(t) : t \in AgentIds}

RunBatches ==
    {<<c>> : c \in RunToolCalls}
    \cup {<<ReadFile, TransferTo("b")>>,
          <<TransferTo("a"), TransferTo("b")>>,
          <<ReadFile, Foreign>>}

\* the contexts the handoff results of transfer_to_agent carry
RunContexts ==
    {[is_list |-> FALSE, turns |-> <<"m1">>], [is_list |-> TRUE, turns |-> <<"m2", "m1">>]}

\* what active_agent.run may return: something that is not a
\* CompletionResponse (with or without an error), a CompletionResponse of a
\* provider response (text, tool calls), or a CompletionResponse of an error
StepResponses ==
    [type : {"other"}, error : BOOLEAN, text : {"error"}, tool_calls : {<<>>}]
    \cup [type : {"CompletionResponse"}, error : {FALSE}, text : Msgs,
          tool_calls : {<<>>} \cup RunBatches]
    \cup [type : {"CompletionResponse"}, error : {TRUE}, text : {"error"},
          tool_calls : {<<>>}]

\* CompletionResponse.get_text
get_text(resp) == IF resp.error THEN "error" ELSE resp.text

\* CompletionResponse.get_tool_calls
get_tool_calls(resp) == IF resp.error THEN <<>> ELSE resp.tool_calls

\* the turn add_message stores for a response
MsgOf(resp) ==
    IF resp.error THEN "error"
    ELSE IF resp.tool_calls # <<>> THEN "tool_use" ELSE resp.text

\* mutant: the budget is never looked at
should_continue_run_NoBudget(tc, md) ==
    {[cont |-> TRUE, debug_prompt |-> FALSE, budget_prompt |-> FALSE]}

\* AgentManager.should_continue_run: every outcome, over the answers the
\* user may give to input(); debug_prompt and budget_prompt tell which
\* prompts were issued
should_continue_run(tc, md) ==
    LET debug == IF md.enable_turn_debug
                 THEN {[asked |-> TRUE, ok |-> a] : a \in BOOLEAN}
                 ELSE {[asked |-> FALSE, ok |-> TRUE]}
        rest(d) ==
            IF ~d.ok
            THEN {[cont |-> FALSE, debug_prompt |-> d.asked, budget_prompt |-> FALSE]}
            ELSE IF tc >= md.max_turns
            THEN IF agents[active_agent].is_test
                 THEN {[cont |-> FALSE, debug_prompt |-> d.asked, budget_prompt |-> FALSE]}
                 ELSE {[cont |-> a, debug_prompt |-> d.asked, budget_prompt |-> TRUE] :
                         a \in BOOLEAN}
            ELSE {[cont |-> TRUE, debug_prompt |-> d.asked, budget_prompt |-> FALSE]}
    IN  UNION {rest(d) : d \in debug}

\* Agent.chat_with_agent: the handoff to the agent to_id that carries the
\* text as its context
chat_with_agent(from_id, to_id, text) ==
    [from_agent_id |-> from_id, to_agent_id |-> to_id,
     context |-> [is_list |-> FALSE, turns |-> <<text>>]]

\* mutant: the target of a handoff is not looked up in the registry
hand_off_Unchecked(hist, h) ==
    [raised |-> FALSE, active_agent |-> h.to_agent_id,
     conversation_context |-> HandOffContext(conversation_context, h),
     history |-> HandOffHistory(hist, h)]

\* _handle_hand_off_result, applied to the histories hist
hand_off(hist, h) ==
    IF h.to_agent_id \notin DOMAIN agents
    THEN [raised |-> TRUE, active_agent |-> active_agent,
          conversation_context |-> conversation_context, history |-> hist]
    ELSE [raised |-> FALSE, active_agent |-> h.to_agent_id,
          conversation_context |-> HandOffContext(conversation_context, h),
          history |-> HandOffHistory(hist, h)]

\* await self._handle_hand_off_result(hand_off_result); continue
ApplyHandOff(hist, h) ==
    LET r == hand_off(hist, h)
    IN  /\ active_agent' = r.active_agent
        /\ conversation_context' = r.conversation_context
        /\ history' = r.history
        /\ IF r.raised
           THEN r_pc' = "raised" /\ m_exc' = "KeyError" /\ applied' = applied
           ELSE r_pc' = "loop" /\ m_exc' = "none" /\ applied' = Append(applied, h)

\* AgentManager.run up to the loop of _execute_run (lines 38-66)
RunStart ==
    /\ r_pc = "idle"
    /\ \E agent_identifier \in AgentIds, md \in RunMetadatas :
         IF agent_identifier \notin DOMAIN agents
         THEN /\ r_pc' = "raised" /\ m_exc' = "Exception"
              /\ UNCHANGED <<active_agent, primary_agent, history, run_metadata>>
         ELSE /\ primary_agent' = agent_identifier
              /\ active_agent' = agent_identifier
              /\ history' = add_message(history, agent_identifier, UserMessage)
              /\ run_metadata' = md
              /\ r_pc' = "loop" /\ m_exc' = "none"
    /\ turns_count' = 0 /\ r_response' = NoResponse
    /\ UNCHANGED <<agents, conversation_context, applied, r_result, r_batch,
                   r_done, r_surfaced, turn_log>>
    /\ UNCHANGED <<dvars, lvars, cvars, avars, gvars, tvars, pvars, evars, bvars>>

\* the head of the loop (lines 67-70): the turn counter and the turn budget
RunLoopTop ==
    /\ r_pc = "loop" /\ turns_count < MaxTurnsCount
    /\ \E o \in should_continue_run(turns_count + 1, run_metadata) :
         /\ turns_count' = turns_count + 1
         /\ turn_log' = Append(turn_log,
                               [turn |-> turns_count + 1, active |-> active_agent,
                                debug_prompt |-> o.debug_prompt,
                                budget_prompt |-> o.budget_prompt, cont |-> o.cont])
         /\ IF o.cont
            THEN r_pc' = "stepping" /\ r_result' = r_result
            ELSE r_pc' = "returned" /\ r_result' = r_response
    /\ UNCHANGED <<run_metadata, r_response, r_batch, r_done, r_surfaced>>
    /\ UNCHANGED <<dvars, lvars, mvars, cvars, avars, gvars, tvars, pvars, evars, bvars>>

\* mutant: a plain-text response always goes back to the primary agent
StepOutcome_AlwaysHandOff(resp) ==
    IF resp.type # "CompletionResponse"
    THEN IF resp.error THEN "retry" ELSE "raise"
    ELSE IF get_tool_calls(resp) = <<>> THEN "auto_hand_off" ELSE "dispatch"

\* mutant: a plain-text response always ends the run
StepOutcome_AlwaysReturn(resp) ==
    IF resp.type # "CompletionResponse"
    THEN IF resp.error THEN "retry" ELSE "raise"
    ELSE IF get_tool_calls(resp) = <<>> THEN "return" ELSE "dispatch"

\* mutant: an unexpected response is treated like a transport error
StepOutcome_Swallow(resp) ==
    IF resp.type # "CompletionResponse"
    THEN "retry"
    ELSE IF get_tool_calls(resp) = <<>>
    THEN IF agents[active_agent].is_primary THEN "return" ELSE "auto_hand_off"
    ELSE "dispatch"

\* the branch of lines 75-98 a response takes
StepOutcome(resp) ==
    IF resp.type # "CompletionResponse"
    THEN IF resp.error THEN "retry" ELSE "raise"
    ELSE IF get_tool_calls(resp) = <<>>
    THEN IF agents[active_agent].is_primary THEN "return" ELSE "auto_hand_off"
    ELSE "dispatch"

\* mutant: a request of an unsupported shape is skipped by the first loop
RunSchedule_Tolerant(batch) == "none"

\* the first loop of Agent.process_tools_with_timeout (lines 103-126) on the
\* batch of the run loop: the exception it raises, or "none".  The loop has
\* no await, it ends before any invocation of the batch does.
RunSchedule(batch) ==
    IF \E k \in 1..Len(batch) : ~SupportedShape(batch[k])
    THEN "ValueError"
    ELSE "none"

\* the agent's step returns (lines 72-98); line 100 starts the dispatch
RunStepReturns ==
    /\ r_pc = "stepping"
    /\ \E resp \in StepResponses :
         LET hist == add_message(history, active_agent, MsgOf(resp))
             o    == StepOutcome(resp)
         IN  /\ r_response' = resp
             /\ CASE o = "retry" ->
                       /\ history' = hist
                       /\ r_pc' = "loop" /\ m_exc' = "none"
                       /\ UNCHANGED <<active_agent, conversation_context, applied,
                                      r_result, r_batch>>
                  [] o = "raise" ->
                       /\ r_pc' = "raised" /\ m_exc' = "Exception"
                       /\ UNCHANGED <<active_agent, conversation_context, applied,
                                      history, r_result, r_batch>>
                  [] o = "return" ->
                       /\ r_pc' = "returned" /\ r_result' = resp
                       /\ history' = hist /\ m_exc' = "none"
                       /\ UNCHANGED <<active_agent, conversation_context, applied, r_batch>>
                  [] o = "auto_hand_off" ->
                       /\ ApplyHandOff(hist, chat_with_agent(active_agent, primary_agent,
                                                             get_text(resp)))
                       /\ UNCHANGED <<r_result, r_batch>>
                  [] o = "dispatch" ->
                       /\ IF RunSchedule(get_tool_calls(resp)) # "none"
                          THEN /\ r_pc' = "raised"
                               /\ m_exc' = RunSchedule(get_tool_calls(resp))
                               /\ r_batch' = r_batch
                          ELSE /\ r_pc' = "dispatching" /\ m_exc' = "none"
                               /\ r_batch' = get_tool_calls(resp)
                       /\ history' = hist
                       /\ UNCHANGED <<active_agent, conversation_context, applied, r_result>>
    /\ r_done' = 0 /\ r_surfaced' = <<>>
    /\ UNCHANGED <<agents, primary_agent, run_metadata, turns_count, turn_log>>
    /\ UNCHANGED <<dvars, lvars, cvars, avars, gvars, tvars, pvars, evars, bvars>>

\* the agent's step raises (line 72 is not inside a try of _execute_run)
RunStepRaises ==
    /\ r_pc = "stepping"
    /\ r_pc' = "raised" /\ m_exc' = "InternalError"
    /\ UNCHANGED <<agents, active_agent, primary_agent, history,
                   conversation_context, applied>>
    /\ UNCHANGED <<run_metadata, turns_count, r_response, r_result, r_batch,
                   r_done, r_surfaced, turn_log>>
    /\ UNCHANGED <<dvars, lvars, cvars, avars, gvars, tvars, pvars, evars, bvars>>

\* one invocation of the batch in flight ends; transfer_to_agent produces an
\* AgentHandoffResult from the active agent to the agent it names
RunToolEnds ==
    /\ r_pc = "dispatching" /\ r_done < Len(r_batch)
    /\ r_done' = r_done + 1
    /\ LET c == r_batch[r_done + 1]
       IN  IF c.name = "transfer_to_agent"
           THEN \E ctx \in RunContexts :
                  r_surfaced' = Append(r_surfaced,
                                       [from_agent_id |-> active_agent,
                                        to_agent_id |-> c.to, context |-> ctx])
           ELSE r_surfaced' = r_surfaced
    /\ UNCHANGED <<r_pc, run_metadata, turns_count, r_response, r_result,
                   r_batch, turn_log>>
    /\ UNCHANGED <<dvars, lvars, mvars, cvars, avars, gvars, tvars, pvars, evars, bvars>>

\* what process_tools_with_timeout may return to the run loop: a
\* ToolResponseWrapper with one of the handoff results the batch produced,
\* one without when it produced none, or something else
Wrappers(surfaced) ==
    {[type |-> "other", handoff |-> <<>>, base64_images |-> FALSE]}
    \cup {[type |-> "ToolResponseWrapper", handoff |-> <<surfaced[k]>>,
           base64_images |-> FALSE] : k \in 1..Len(surfaced)}
    \cup (IF surfaced = <<>>
          THEN [type : {"ToolResponseWrapper"}, handoff : {<<>>},
                base64_images : BOOLEAN]
          ELSE {})

\* mutant: the handoff result of the wrapper is not looked at
DispatchOutcome_IgnoreHandOff(w) ==
    IF w.type # "ToolResponseWrapper" THEN "raise" ELSE "append"

\* the branch of lines 103-125 a dispatch result takes
DispatchOutcome(w) ==
    IF w.type # "ToolResponseWrapper" THEN "raise"
    ELSE IF w.handoff # <<>> THEN "hand_off" ELSE "append"

\* the dispatch returns (lines 100-125)
RunDispatchReturns ==
    /\ r_pc = "dispatching" /\ r_done = Len(r_batch)
    /\ \E w \in Wrappers(r_surfaced) :
         LET o == DispatchOutcome(w)
         IN  CASE o = "raise" ->
                    /\ r_pc' = "raised" /\ m_exc' = "Exception"
                    /\ UNCHANGED <<active_agent, conversation_context, applied, history>>
               [] o = "hand_off" -> ApplyHandOff(history, w.handoff[1])
               [] o = "append" ->
                    /\ history' =
                         IF w.base64_images
                         THEN add_message(add_message(history, active_agent, "tool_results"),
                                          active_agent, "image")
                         ELSE add_message(history, active_agent, "tool_results")
                    /\ r_pc' = "loop" /\ m_exc' = "none"
                    /\ UNCHANGED <<active_agent, conversation_context, applied>>
    /\ r_batch' = <<>> /\ r_done' = 0 /\ r_surfaced' = <<>>
    /\ UNCHANGED <<agents, primary_agent, run_metadata, turns_count, r_response,
                   r_result, turn_log>>
    /\ UNCHANGED <<dvars, lvars, cvars, avars, gvars, tvars, pvars, evars, bvars>>

\* the managers a run starts from: the agents "a" and "b" have been
\* registered, "a" first, and "b" is not primary
RunRegistries ==
    {a \in [{"a", "b"} -> [is_primary : BOOLEAN, is_test : BOOLEAN]] : ~a["b"].is_primary}

InitRun ==
    /\ agents \in RunRegistries
    /\ active_agent = None
    /\ primary_agent = IF agents["a"].is_primary THEN "a" ELSE None
    /\ history = [a \in AgentIds |-> <<>>]
    /\ conversation_context = [a \in AgentIds |-> <<>>]
    /\ applied = <<>> /\ m_exc = "none"
    /\ DispatchIdle /\ LegacyIdle /\ RunIdle /\ ArgsIdle /\ RegistryIdle /\ CompletionIdle /\ TwoRunsIdle /\ CachingIdle /\ EditIdle /\ BashIdle

NextRun ==
    \/ RunStart
    \/ RunLoopTop
    \/ RunStepReturns
    \/ RunStepRaises
    \/ RunToolEnds
    \/ RunDispatchReturns

SpecRun == InitRun /\ [][NextRun]_vars

\* the managers all of whose agents are test configurations
InitRunTest == InitRun /\ \A a \in DOMAIN agents : agents[a].is_test

\* the run loop of such a manager when every call it awaits ends:
\* should_continue_run answers, the step returns or raises, every invocation
\* of a batch ends and the dispatcher returns
SpecRunTest == InitRunTest /\ [][NextRun]_vars /\ WF_vars(NextRun)

(***************************************************************************)
(* Properties of the run loop.                                             *)
(***************************************************************************)
Running == r_pc \in {"loop", "stepping", "dispatching"}

\* this step is an exception of the agent's step reaching the run loop
StepRaised == r_pc = "stepping" /\ r_pc' = "raised" /\ m_exc' = "InternalError"

\* this step is the return of the agent's step to the run loop
StepReturned == r_pc = "stepping" /\ r_pc' # "stepping" /\ ~StepRaised

\* this step is the return of the dispatched batch to the run loop
DispatchReturned == r_pc = "dispatching" /\ r_pc' # "dispatching"

\* the turns of the run for which the agent's step was executed
StepsTaken == {k \in 1..Len(turn_log) : turn_log[k].cont}

\* those executed without the budget prompt having been answered
StepsNotApproved == {k \in StepsTaken : ~turn_log[k].budget_prompt}

AllTest == \A a \in DOMAIN agents : agents[a].is_test

\* C11: during a run the active agent is one registered agent, and
\* active_agent is reassigned only when the run starts and when the run loop
\* applies one handoff on the return of the agent's step or of the whole
\* batch: never while the step or an invocation of the batch (also
\* transfer_to_agent) is in flight, and never by two handoffs in one step.
C11_ActiveReassignedBetweenSteps ==
    [][/\ (r_pc' \in {"loop", "stepping", "dispatching"}) => active_agent' \in DOMAIN agents'
       /\ (active_agent' # active_agent) =>
            \/ r_pc = "idle" /\ r_pc' = "loop"
            \/ /\ StepReturned \/ (DispatchReturned /\ r_done = Len(r_batch))
               /\ r_pc' = "loop"
               /\ HandoffApplied
               /\ active_agent' = Last(applied').to_agent_id
       /\ (r_pc' = r_pc /\ r_pc \in {"stepping", "dispatching"}) =>
            (active_agent' = active_agent /\ applied' = applied)
       /\ Len(applied') <= Len(applied) + 1]_vars

\* C11 witness: after a first handoff was applied, the two transfer_to_agent
\* invocations of a batch have both ended and the batch is still in flight,
\* with the active agent the one that requested them.
C11_Witness ==
    /\ r_pc = "dispatching" /\ Len(applied) = 1 /\ Len(r_surfaced) = 2
    /\ active_agent = applied[1].to_agent_id
    /\ r_surfaced[1].from_agent_id = active_agent
    /\ r_surfaced[2].to_agent_id # active_agent

\* C12: the number of agent steps executed without an approval at the
\* budget prompt never exceeds max_turns, and when every agent is is_test
\* the number of agent steps never exceeds max_turns.
C12_TurnBudget ==
    /\ Cardinality(StepsNotApproved) <= run_metadata.max_turns
    /\ AllTest => Cardinality(StepsTaken) <= run_metadata.max_turns

\* C12 witness: a run of is_test agents with max_turns = 2 and no debug
\* prompt was stopped at its second turn, without a prompt.
C12_Witness ==
    /\ r_pc = "returned" /\ AllTest /\ run_metadata.max_turns = 2
    /\ Len(turn_log) = 2 /\ turn_log[1].cont /\ ~turn_log[2].cont
    /\ ~turn_log[2].budget_prompt /\ ~turn_log[2].debug_prompt

\* C13 (as claimed): for every turn with turns_count <= max_turns the agent
\* step runs, without a prompt and without the loop stopping (stated for
\* runs without the per-turn debug prompt).
C13_PolicyOnlyAboveBudget ==
    ~run_metadata.enable_turn_debug =>
        \A k \in 1..Len(turn_log) :
            turn_log[k].turn <= run_metadata.max_turns =>
                (turn_log[k].cont /\ ~turn_log[k].budget_prompt)

\* C14 (as claimed): when the active agent is is_test, should_continue_run
\* never issues a prompt, also with enable_turn_debug set.
C14_TestNeverPrompts ==
    \A k \in 1..Len(turn_log) :
        agents[turn_log[k].active].is_test =>
            (~turn_log[k].debug_prompt /\ ~turn_log[k].budget_prompt)

\* C15: when the step of an active agent that is primary returns a
\* CompletionResponse without tool invocations, the run returns that very
\* response, its text unchanged, the active agent stays, and nothing happens
\* after the return; when that response is the first of the run, one step has
\* been executed and turns_count is 1.
C15_PrimaryPlainTextReturns ==
    [][/\ (/\ StepReturned
           /\ r_response'.type = "CompletionResponse"
           /\ get_tool_calls(r_response') = <<>>
           /\ agents[active_agent].is_primary) =>
             /\ r_pc' = "returned"
             /\ r_result' = r_response'
             /\ get_text(r_result') = get_text(r_response')
             /\ active_agent' = active_agent
             /\ Len(turn_log) = 1 =>
                  (turns_count' = 1 /\ Cardinality(StepsTaken') = 1)
       /\ r_pc = "returned" => (r_pc' = "returned" /\ r_result' = r_result
                                /\ turn_log' = turn_log /\ history' = history)]_vars

\* C15 witness: the first response of a run of the primary agent was the
\* text "m2", and the run returned it after one turn.
C15_Witness ==
    /\ r_pc = "returned" /\ turns_count = 1 /\ Len(turn_log) = 1
    /\ agents[active_agent].is_primary
    /\ r_result.type = "CompletionResponse" /\ ~r_result.error
    /\ r_result.text = "m2" /\ r_result.tool_calls = <<>>
    /\ history[active_agent] = <<UserMessage, "m2">>

\* C16: when the step of an active agent that is not primary returns a
\* CompletionResponse without tool invocations, the run does not return: the
\* handoff from that agent to the primary agent that carries the response's
\* text is applied, the primary agent is the active agent after the step, its
\* history ends with that text, and the loop continues.
C16_NonPrimaryHandsBackToPrimary ==
    [][(/\ StepReturned
        /\ r_response'.type = "CompletionResponse"
        /\ get_tool_calls(r_response') = <<>>
        /\ ~agents[active_agent].is_primary) =>
          /\ r_pc' = "loop"
          /\ r_result' = r_result
          /\ HandoffApplied
          /\ Last(applied') = chat_with_agent(active_agent, primary_agent,
                                              get_text(r_response'))
          /\ active_agent' = primary_agent
          /\ primary_agent' = primary_agent
          /\ Last(history'[primary_agent]) = get_text(r_response')
          /\ Participants(conversation_context'[primary_agent]) =
               {active_agent, primary_agent}]_vars

\* C16 witness: the agent "b", active after a handoff, answered with the text
\* "m2"; the primary agent "a" is active again, with "m2" as its last turn.
C16_Witness ==
    /\ r_pc = "loop" /\ Len(applied) = 2
    /\ applied[1].to_agent_id = "b"
    /\ applied[2] = chat_with_agent("b", "a", "m2")
    /\ active_agent = "a" /\ primary_agent = "a"
    /\ Last(history["a"]) = "m2"

HasForeign(resp) ==
    \E k \in 1..Len(get_tool_calls(resp)) : ~SupportedShape(get_tool_calls(resp)[k])

\* the turns a step appended to the histories
Added(a) == SubSeq(history'[a], Len(history[a]) + 1, Len(history'[a]))

\* C21: when the response of a step carries a tool-invocation request that
\* matches neither supported provider shape, the dispatcher raises ValueError
\* before any invocation of the batch ends, the run ends with that exception
\* instead of a result, no tool-result turn is added to any history, and
\* nothing happens after the exception.
C21_UnsupportedShapeIsFatal ==
    [][/\ (/\ StepReturned
           /\ r_response'.type = "CompletionResponse"
           /\ HasForeign(r_response')) =>
             /\ r_pc' = "raised" /\ m_exc' = "ValueError"
             /\ r_result' = NoResponse
             /\ history' = add_message(history, active_agent, "tool_use")
             /\ r_done' = 0
       /\ r_pc = "raised" => UNCHANGED vars]_vars

\* C21 witness: the first response of a run requested read_file and, behind
\* it, a request of an unsupported shape; the run ended with ValueError.
C21_Witness ==
    /\ r_pc = "raised" /\ m_exc = "ValueError" /\ turns_count = 1
    /\ r_response.tool_calls = <<ReadFile, Foreign>>
    /\ r_result = NoResponse
    /\ history[active_agent] = <<UserMessage, "tool_use">>

\* C22: an exception that escapes a turn (the step raises, the step returns
\* something that is not a CompletionResponse and has no error, the
\* dispatcher raises or returns something unexpected, the target of a handoff
\* is not registered) ends the run with that exception: the run has no
\* result, then and ever after, and the turn adds neither an error turn nor a
\* tool-result turn to a history.
C22_ExceptionsReachCaller ==
    [][/\ (StepRaised \/ (StepReturned /\ r_response'.type = "other"
                                       /\ ~r_response'.error)) =>
            (r_pc' = "raised" /\ history' = history)
       /\ (r_pc # "raised" /\ r_pc' = "raised") =>
            /\ m_exc' # "none"
            /\ r_result' = NoResponse
            /\ \A a \in AgentIds : \A k \in 1..Len(Added(a)) :
                 Added(a)[k] \notin {"error", "tool_results", "image"}
       /\ r_pc = "raised" => UNCHANGED vars]_vars

\* C22 witness: the second step of a run returned something that is neither
\* a CompletionResponse nor an error, after the first turn's batch had been
\* folded into the history; the run ended with the exception.
C22_Witness ==
    /\ r_pc = "raised" /\ m_exc = "Exception" /\ turns_count = 2
    /\ r_response.type = "other" /\ ~r_response.error
    /\ r_result = NoResponse
    /\ history[active_agent] = <<UserMessage, "tool_use", "tool_results">>

\* C23 (as claimed): whenever the run has returned, the returned response is
\* not None and the active agent is the primary agent of the run.
C23_ReturnsPrimaryResponse ==
    r_pc = "returned" => (r_result # NoResponse /\ active_agent = primary_agent)

RunDone == r_pc \in {"returned", "raised"}

\* a run of is_test agents without the per-turn debug prompt is under way
TestRun == r_pc # "idle" /\ AllTest /\ ~run_metadata.enable_turn_debug

\* C24: in a run in which every agent is is_test and turn debug is off, at
\* most max_turns agent steps are executed and the turn counter never passes
\* max_turns (1 for max_turns = 0, the turn at which the loop stops), and the
\* run returns or raises, whatever the steps return: tool batches, transport
\* errors, handoffs.
C24_TurnBudgetTerminates ==
    /\ [](TestRun =>
            /\ Cardinality(StepsTaken) <= run_metadata.max_turns
            /\ turns_count <= Max(run_metadata.max_turns, 1))
    /\ (TestRun ~> RunDone)

\* C24 witness: a run of is_test agents with max_turns = 2 handed control
\* from "a" to "b" in its only step and was stopped at turn 2.
C24_Witness ==
    /\ r_pc = "returned" /\ TestRun /\ run_metadata.max_turns = 2
    /\ turns_count = 2 /\ Cardinality(StepsTaken) = 1
    /\ Len(applied) = 1 /\ applied[1].from_agent_id = "a" /\ active_agent = "b"

C30_AutoHandoffToOtherPrimary ==
    [][(StepReturned /\ HandoffApplied) =>
         /\ Last(applied').to_agent_id = primary_agent
         /\ agents[primary_agent].is_primary
         /\ Last(applied').to_agent_id # Last(applied').from_agent_id]_vars

(***************************************************************************)
(* The completion loops: OpenAIClient.send_completion_request              *)
(* (openai_client.py) and the legacy send_completion_request               *)
(* (chat_completion.py).  One call of the function is a depth check        *)
(* followed by a transport call; a response with tool calls ends in the    *)
(* recursive call.                                                         *)
(***************************************************************************)
\* the largest max_depth the caller sets
MaxDepth == 2
\* the number of transport calls after which the model stops following a loop
MaxRequests == 3
\* Metadata.max_depth when the caller does not set it
DefaultMaxDepth == 8

\* the Metadata a caller may hand to the loop
InitMetadatas ==
    {md \in [current_depth : 0..MaxDepth \cup {DefaultMaxDepth - 1},
             total_depth : 0..DefaultMaxDepth,
             max_depth : 0..MaxDepth \cup {DefaultMaxDepth},
             request_count : {0},
             session_id : {"", "s1"}, last_user_message : {"", "hi"}] :
        md.total_depth \in {md.current_depth, md.current_depth + 1}}

\* the depth check (openai_client.py 114-119, chat_completion.py 21-26);
\* answer tells whether the user answers "y" or "yes"
DepthCheck(md, answer) ==
    IF md.current_depth >= md.max_depth
    THEN IF answer
         THEN [asked |-> TRUE, proceed |-> TRUE,
               metadata |-> [md EXCEPT !.current_depth = 0]]
         ELSE [asked |-> TRUE, proceed |-> FALSE, metadata |-> md]
    ELSE [asked |-> FALSE, proceed |-> TRUE, metadata |-> md]

\* mutant: the recursive call gets a Metadata that carries no depth
Counted_Fresh(i, md, kind) ==
    IF kind = "tools"
    THEN [current_depth |-> 0, total_depth |-> 0,
          max_depth |-> DefaultMaxDepth, request_count |-> 0,
          session_id |-> "", last_user_message |-> md.last_user_message]
    ELSE md

\* the Metadata after a response that is not an error: the client counts
\* every response (openai_client.py 125-127), the legacy loop builds the
\* Metadata of the recursive call from last_user_message and the two depths
\* alone, so that max_depth, request_count and session_id take the defaults
\* of the class (chat_completion.py 43-47, request_metadata.py 4-10)
Counted(i, md, kind) ==
    IF i = "OpenAIClient"
    THEN [md EXCEPT !.current_depth = @ + 1, !.total_depth = @ + 1,
                    !.request_count = @ + 1]
    ELSE IF kind = "tools"
    THEN [current_depth |-> md.current_depth + 1, total_depth |-> md.total_depth + 1,
          max_depth |-> DefaultMaxDepth, request_count |-> 0,
          session_id |-> "", last_user_message |-> md.last_user_message]
    ELSE md

\* what the loop saves to the memory for a transport result
\* (openai_client.py 123-137, chat_completion.py 30-41)
Saved(mem, kind) ==
    CASE kind = "error" -> mem
      [] kind = "text" -> Append(mem, "assistant")
      [] kind = "tools" -> mem \o <<"tool_calls", "tool_results">>

\* the entry of send_completion_request: the depth check
CompletionCheck ==
    /\ c_pc = "check"
    /\ \E answer \in BOOLEAN :
         LET d == DepthCheck(metadata, answer)
         IN  /\ metadata' = d.metadata
             /\ c_asked' = d.asked
             /\ policy_log' = IF d.asked
                              THEN Append(policy_log,
                                          [current_depth |-> metadata.current_depth,
                                           total_depth |-> metadata.total_depth,
                                           accepted |-> d.proceed])
                              ELSE policy_log
             /\ IF d.proceed
                THEN c_pc' = "request" /\ c_result' = c_result
                ELSE c_pc' = "returned" /\ c_result' = "None"
    /\ UNCHANGED <<c_impl, c_max_depth, memory, requests>>
    /\ UNCHANGED <<dvars, lvars, mvars, rvars, avars, gvars, tvars, pvars, evars, bvars>>

\* the transport call and what follows it: an ErrorResponse is returned, a
\* response without tool calls is saved and returned, a response with tool
\* calls is saved with the results of its tools and the function calls itself
CompletionRequest ==
    /\ c_pc = "request" /\ requests < MaxRequests
    /\ \E kind \in {"error", "text", "tools"} :
         /\ requests' = requests + 1
         /\ memory' = Saved(memory, kind)
         /\ metadata' = IF kind = "error" THEN metadata ELSE Counted(c_impl, metadata, kind)
         /\ CASE kind = "error" -> c_pc' = "returned" /\ c_result' = "ErrorResponse"
              [] kind = "text" -> c_pc' = "returned" /\ c_result' = "response"
              [] kind = "tools" -> c_pc' = "check" /\ c_result' = c_result
    /\ UNCHANGED <<c_impl, c_max_depth, c_asked, policy_log>>
    /\ UNCHANGED <<dvars, lvars, mvars, rvars, avars, gvars, tvars, pvars, evars, bvars>>

InitCompletion ==
    /\ c_impl \in {"OpenAIClient", "legacy"}
    /\ c_pc = "check"
    /\ metadata \in InitMetadatas
    /\ c_max_depth = metadata.max_depth
    /\ memory = <<"user">> /\ requests = 0 /\ c_result = "none"
    /\ c_asked = FALSE /\ policy_log = <<>>
    /\ DispatchIdle /\ LegacyIdle /\ ManagerIdle /\ RunIdle /\ ArgsIdle /\ RegistryIdle /\ TwoRunsIdle /\ CachingIdle /\ EditIdle /\ BashIdle

NextCompletion ==
    \/ CompletionCheck
    \/ CompletionRequest

SpecCompletion == InitCompletion /\ [][NextCompletion]_vars

(***************************************************************************)
(* Properties of the completion loops.                                     *)
(***************************************************************************)
\* this step is a depth check at which the depth has reached max_depth
AtPolicyPoint == c_pc = "check" /\ metadata.current_depth >= metadata.max_depth

\* this step is a response with tool calls: the loop continues
Continuation == c_pc = "request" /\ c_pc' = "check"

\* C18 (as claimed): when the transport call fails, the loop returns the
\* error result and has appended the failed exchange to the history.
C18_ErrorAppendedAndReturned ==
    [][(c_pc = "request" /\ c_result' = "ErrorResponse") =>
          /\ c_pc' = "returned"
          /\ Len(memory') = Len(memory) + 1
          /\ SubSeq(memory', 1, Len(memory)) = memory]_vars

\* C19 (as claimed): at every depth check at which current_depth has reached
\* the max_depth of the loop, the user is consulted before the transport
\* call; a refusal returns None with no transport call and no change of the
\* memory; an acceptance resets current_depth to 0 and the loop goes on.
C19_PolicyAtMaxDepth ==
    [][/\ (c_pc = "check" /\ c_pc' # "check"
           /\ metadata.current_depth >= c_max_depth) =>
            /\ c_asked'
            /\ requests' = requests /\ memory' = memory
            /\ c_pc' = "returned" => c_result' = "None"
            /\ c_pc' = "request" => metadata'.current_depth = 0
       /\ (requests' # requests) => c_pc = "request"]_vars

\* C20: total_depth never decreases; current_depth decreases only at a
\* depth check with current_depth >= max_depth that the user accepted, and
\* then to 0; every continuation after a response with tool calls adds
\* exactly one to current_depth and to total_depth, and no step adds more
\* than one.
C20_DepthCounters ==
    [][/\ metadata'.total_depth >= metadata.total_depth
       /\ (metadata'.current_depth < metadata.current_depth) =>
            /\ AtPolicyPoint /\ c_pc' = "request"
            /\ metadata'.current_depth = 0
            /\ Last(policy_log').accepted
       /\ Continuation =>
            /\ metadata'.current_depth = metadata.current_depth + 1
            /\ metadata'.total_depth = metadata.total_depth + 1
       /\ metadata'.current_depth <= metadata.current_depth + 1
       /\ metadata'.total_depth <= metadata.total_depth + 1]_vars

\* C20 witness: after an accepted reset the loop made two continuations:
\* current_depth is 2 while total_depth has grown past it.
C20_Witness ==
    /\ c_pc = "check" /\ requests = 3 /\ Len(policy_log) = 1
    /\ Last(policy_log).accepted
    /\ metadata.current_depth = 2
    /\ metadata.total_depth = Last(policy_log).total_depth + 2
    /\ metadata.total_depth > metadata.current_depth

\* this step is a transport call
TransportCall == requests' = requests + 1

\* C34 (as claimed): for a max_depth of at least 1, a transport call is
\* issued only while current_depth is below the max_depth of the request,
\* so that without an approval a call of the loop makes at most max_depth
\* consecutive round-trips.
C34_TransportBelowMaxDepth ==
    [][(c_max_depth >= 1 /\ TransportCall) =>
          metadata.current_depth < c_max_depth]_vars

\* C35 (as claimed): across the recursion of the legacy loop the settings
\* of the caller stay in force: the depth check of every level compares
\* against the caller's max_depth, and session_id and last_user_message
\* do not change.
C35_CallerSettingsStayInForce ==
    [][c_impl = "legacy" =>
          /\ metadata'.max_depth = c_max_depth
          /\ metadata'.session_id = metadata.session_id
          /\ metadata'.last_user_message = metadata.last_user_message]_vars

(***************************************************************************)
(* The call of a capability with the arguments of a request.  The          *)
(* dispatchers pass  tuple(json.loads(arguments).values())  (or            *)
(* tuple(tool_call.input.values()))  as positional arguments, the legacy   *)
(* loop passes  **json.loads(arguments).  A payload is the sequence of its *)
(* (key, value) pairs in the order of the request.                         *)
(***************************************************************************)
\* the largest number of declared parameters and of keys in a payload
MaxArgs == 3
\* the number of parameters of EditTool.__call__ without a default
Required == 2

\* the declared parameters of EditTool.__call__, in their order
EditParams == <<"command", "path", "file_text", "view_range", "old_str",
                "new_str", "insert_line">>

Declared == SubSeq(EditParams, 1, MaxArgs)

Keys == {Declared[i] : i \in 1..Len(Declared)}

\* the value the request gives for the key k
ValueOf(k) == <<"value of", k>>

\* the default of a parameter that received no argument
NoValue == <<"default">>

\* the orders in which a payload may hold n distinct keys
KeyOrders(n) == {f \in [1..n -> Keys] : \A i, j \in 1..n : f[i] = f[j] => i = j}

Payloads ==
    UNION {{[i \in 1..n |-> [key |-> q[i], value |-> ValueOf(q[i])]] : q \in KeyOrders(n)} :
             n \in 0..MaxArgs}

\* dict.values(): the values in the order of the keys, the keys dropped
values(payload) == [i \in 1..Len(payload) |-> payload[i].value]

\* tool_func(*args): Python binds the i-th argument to the i-th declared
\* parameter; keyword-only parameters take no positional argument
call_positional(kwonly, args) ==
    IF \/ kwonly /\ Len(args) > 0
       \/ Len(args) > Len(Declared)
       \/ Len(args) < Required
    THEN [raised |-> TRUE, bound |-> [p \in Keys |-> NoValue]]
    ELSE [raised |-> FALSE,
          bound |-> [p \in Keys |->
                       IF \E i \in 1..Len(args) : Declared[i] = p
                       THEN args[CHOOSE i \in 1..Len(args) : Declared[i] = p]
                       ELSE NoValue]]

\* function_to_call(**function_args): each value goes to the parameter of
\* its key
call_keywords(payload) ==
    IF \E r \in 1..Required : \A i \in 1..Len(payload) : payload[i].key # Declared[r]
    THEN [raised |-> TRUE, bound |-> [p \in Keys |-> NoValue]]
    ELSE [raised |-> FALSE,
          bound |-> [p \in Keys |->
                       IF \E i \in 1..Len(payload) : payload[i].key = p
                       THEN payload[CHOOSE i \in 1..Len(payload) : payload[i].key = p].value
                       ELSE NoValue]]

\* Agent.process_tools_with_timeout lines 107, 111, 125 and run_tool, and
\* OpenAIClient.process_tools_with_timeout lines 163-164
DispatcherCall ==
    /\ a_pc = "start" /\ a_impl \in {"Agent", "OpenAIClient"}
    /\ LET c == call_positional(a_kwonly, values(a_payload))
       IN  /\ a_pc' = IF c.raised THEN "raised" ELSE "called"
           /\ a_bound' = c.bound
    /\ UNCHANGED <<a_impl, a_kwonly, a_payload>>
    /\ UNCHANGED <<dvars, lvars, mvars, rvars, cvars, gvars, tvars, pvars, evars, bvars>>

\* process_tool_calls of chat_completion.py, lines 58-65
LegacyCall ==
    /\ a_pc = "start" /\ a_impl = "legacy"
    /\ LET c == call_keywords(a_payload)
       IN  /\ a_pc' = IF c.raised THEN "raised" ELSE "called"
           /\ a_bound' = c.bound
    /\ UNCHANGED <<a_impl, a_kwonly, a_payload>>
    /\ UNCHANGED <<dvars, lvars, mvars, rvars, cvars, gvars, tvars, pvars, evars, bvars>>

InitArgs ==
    /\ a_impl \in {"Agent", "OpenAIClient", "legacy"}
    /\ a_kwonly \in BOOLEAN
    /\ a_payload \in Payloads
    /\ a_bound = [p \in Keys |-> NoValue]
    /\ a_pc = "start"
    /\ DispatchIdle /\ LegacyIdle /\ ManagerIdle /\ RunIdle /\ CompletionIdle /\ TwoRunsIdle /\ CachingIdle /\ EditIdle /\ BashIdle
    /\ RegistryIdle

NextArgs ==
    \/ DispatcherCall
    \/ LegacyCall

SpecArgs == InitArgs /\ [][NextArgs]_vars

\* the payload gives a value for every parameter without a default
HasRequired ==
    \A r \in 1..Required : \E i \in 1..Len(a_payload) : a_payload[i].key = Declared[r]

\* C26 (as claimed): when a dispatcher has called the capability with a
\* payload that holds the required parameters, in any order of its keys and
\* with any of the optional parameters left out, the call took place and
\* every value reached the parameter named by its key.
C26_ArgumentsReachNamedParameters ==
    (a_impl \in {"Agent", "OpenAIClient"} /\ a_pc # "start" /\ HasRequired) =>
        /\ a_pc = "called"
        /\ \A i \in 1..Len(a_payload) : a_bound[a_payload[i].key] = a_payload[i].value

(***************************************************************************)
(* Registration and clean_up of the AgentManager (lines 182-212), with a   *)
(* record of the calls of register_agent and of what they returned.        *)
(***************************************************************************)
\* the number of calls of register_agent in one behaviour
MaxRegistrations == 3
\* the number of turns an agent's history receives
MaxNotes == 1

\* register_agent, its argument and its return value recorded
RegistryRegister ==
    /\ IF reg_log = <<>> THEN TRUE ELSE reg_log[1].n < MaxRegistrations
    /\ \E config \in AgentConfigs :
         /\ register_agent(config)
         /\ reg_log' = <<[n |-> IF reg_log = <<>> THEN 1 ELSE reg_log[1].n + 1,
                          config |-> config,
                          ret |-> [id |-> config.id, agent |-> agents'[config.id]]]>>
    /\ m_exc' = "none"
    /\ UNCHANGED <<active_agent, applied>>
    /\ UNCHANGED <<memory_service, u_pc, u_tasks>>
    /\ UNCHANGED <<dvars, lvars, rvars, cvars, avars, tvars, pvars, evars, bvars>>

\* a registered agent's history receives a turn (Agent.add_message, as
\* _execute_run line 61 calls it)
RegistryAddMessage ==
    /\ \E a \in DOMAIN agents :
         /\ Len(history[a]) < MaxNotes
         /\ history' = add_message(history, a, UserMessage)
    /\ UNCHANGED <<agents, active_agent, primary_agent, conversation_context,
                   applied, m_exc>>
    /\ UNCHANGED <<dvars, lvars, rvars, cvars, avars, gvars, tvars, pvars, evars, bvars>>

\* lines 186-197 up to the await of gather: one task per agent that has a
\* cleanup attribute (has_cleanup); without tasks the registry is cleared
\* at once
CreateCleanupTasks(has_cleanup) ==
    IF has_cleanup = {}
    THEN /\ agents' = <<>>
         /\ u_tasks' = <<>>
         /\ u_pc' = "done"
    ELSE /\ agents' = agents
         /\ u_tasks' = [a \in has_cleanup |-> "pending"]
         /\ u_pc' = "gathering"

\* clean_up is called (lines 183-184): a memory service is disconnected
\* first
CleanUpStart ==
    /\ u_pc = "idle"
    /\ IF memory_service # None
       THEN u_pc' = "disconnecting" /\ UNCHANGED <<agents, u_tasks>>
       ELSE \E has_cleanup \in SUBSET DOMAIN agents : CreateCleanupTasks(has_cleanup)
    /\ UNCHANGED <<active_agent, primary_agent, history, conversation_context,
                   applied, m_exc>>
    /\ UNCHANGED <<memory_service, reg_log>>
    /\ UNCHANGED <<dvars, lvars, rvars, cvars, avars, tvars, pvars, evars, bvars>>

\* await self.memory_service.disconnect() returns or raises (line 184)
CleanUpDisconnect ==
    /\ u_pc = "disconnecting"
    /\ \/ /\ u_pc' = "raised" /\ m_exc' = "Exception"
          /\ UNCHANGED <<agents, u_tasks, memory_service>>
       \/ /\ memory_service' = "disconnected" /\ m_exc' = "none"
          /\ \E has_cleanup \in SUBSET DOMAIN agents : CreateCleanupTasks(has_cleanup)
    /\ UNCHANGED <<active_agent, primary_agent, history, conversation_context, applied>>
    /\ UNCHANGED reg_log
    /\ UNCHANGED <<dvars, lvars, rvars, cvars, avars, tvars, pvars, evars, bvars>>

\* the cleanup of one agent returns or raises
CleanUpTaskEnds ==
    /\ u_pc = "gathering"
    /\ \E a \in DOMAIN u_tasks, o \in {"returned", "raised"} :
         /\ u_tasks[a] = "pending"
         /\ u_tasks' = [u_tasks EXCEPT ![a] = o]
    /\ UNCHANGED <<memory_service, u_pc, reg_log>>
    /\ UNCHANGED <<dvars, lvars, mvars, rvars, cvars, avars, tvars, pvars, evars, bvars>>

\* mutant: gather without return_exceptions, the first exception is raised
gather_Propagate(cleanup_tasks) ==
    IF \E a \in DOMAIN cleanup_tasks : cleanup_tasks[a] = "raised" THEN "raised"
    ELSE IF \E a \in DOMAIN cleanup_tasks : cleanup_tasks[a] = "pending" THEN "waiting"
    ELSE "done"

\* asyncio.gather(*cleanup_tasks, return_exceptions=True) (line 195): it
\* waits for every task and hands an exception back as a result
gather(cleanup_tasks) ==
    IF \E a \in DOMAIN cleanup_tasks : cleanup_tasks[a] = "pending" THEN "waiting"
    ELSE "done"

\* gather returns and the registry is cleared (lines 195-198)
CleanUpGathered ==
    /\ u_pc = "gathering" /\ gather(u_tasks) # "waiting"
    /\ IF gather(u_tasks) = "raised"
       THEN u_pc' = "raised" /\ m_exc' = "Exception" /\ agents' = agents
       ELSE u_pc' = "done" /\ m_exc' = "none" /\ agents' = <<>>
    /\ UNCHANGED <<active_agent, primary_agent, history, conversation_context, applied>>
    /\ UNCHANGED <<memory_service, u_tasks, reg_log>>
    /\ UNCHANGED <<dvars, lvars, rvars, cvars, avars, tvars, pvars, evars, bvars>>

\* a manager as constructed; a run with enable_external_memory (lines
\* 41-43 of run) has or has not connected the memory service
InitRegistry ==
    /\ ManagerIdle
    /\ memory_service \in {None, "connected"}
    /\ u_pc = "idle" /\ u_tasks = <<>> /\ reg_log = <<>>
    /\ DispatchIdle /\ LegacyIdle /\ RunIdle /\ CompletionIdle /\ ArgsIdle /\ TwoRunsIdle /\ CachingIdle /\ EditIdle /\ BashIdle

NextRegistry ==
    \/ RegistryRegister
    \/ RegistryAddMessage
    \/ CleanUpStart
    \/ CleanUpDisconnect
    \/ CleanUpTaskEnds
    \/ CleanUpGathered

SpecRegistry == InitRegistry /\ [][NextRegistry]_vars

(***************************************************************************)
(* Properties of registration and clean_up.                                *)
(***************************************************************************)
\* this step is the completion of clean_up
CleanUpCompletes == u_pc # "done" /\ u_pc' = "done"

\* this step is a call of register_agent
Registers == reg_log' # reg_log

\* C27: when clean_up completes, the registry holds no agents and a memory
\* service that was connected has been disconnected; the cleanup of every
\* agent that has one has ended, and a cleanup that raised neither makes
\* clean_up raise nor keeps an agent in the registry: clean_up only raises
\* out of the disconnect.
C27_CleanUpReleasesAll ==
    [][/\ CleanUpCompletes =>
            /\ agents' = <<>>
            /\ memory_service' # "connected"
            /\ \A a \in DOMAIN u_tasks' : u_tasks'[a] \in {"returned", "raised"}
       /\ (u_pc = "gathering" /\ u_pc' # "gathering") => CleanUpCompletes
       /\ (u_pc # "raised" /\ u_pc' = "raised") =>
            (u_pc = "disconnecting" /\ u_tasks' = <<>>)]_vars

\* C27 witness: clean_up has completed on a manager with a connected memory
\* service and three agents; the cleanup of "a" raised, that of "b"
\* returned, and "c" has none.
C27_Witness ==
    /\ u_pc = "done" /\ agents = <<>> /\ memory_service = "disconnected"
    /\ DOMAIN u_tasks = {"a", "b"}
    /\ u_tasks["a"] = "raised" /\ u_tasks["b"] = "returned"
    /\ reg_log # <<>> /\ reg_log[1].n = 3

\* C28: a call of register_agent with an id that is registered returns the
\* Agent the registry holds (the one made from the first config) and leaves
\* the registry, every history and conversation context and primary_agent
\* unchanged; a call with a new id adds the Agent of its config and returns
\* it, and leaves the other agents and their histories alone.
C28_RegisterOncePerId ==
    [][Registers =>
         LET config == reg_log'[1].config
             ret    == reg_log'[1].ret
         IN  IF config.id \in DOMAIN agents
             THEN /\ agents' = agents
                  /\ history' = history
                  /\ conversation_context' = conversation_context
                  /\ primary_agent' = primary_agent
                  /\ ret = [id |-> config.id, agent |-> agents[config.id]]
             ELSE /\ DOMAIN agents' = DOMAIN agents \cup {config.id}
                  /\ agents'[config.id] = AgentOf(config)
                  /\ ret = [id |-> config.id, agent |-> AgentOf(config)]
                  /\ \A a \in DOMAIN agents :
                       agents'[a] = agents[a] /\ history'[a] = history[a]]_vars

\* C28 witness: the last of three calls gave a primary config for an id that
\* is registered as not primary and whose agent holds a turn; it returned the
\* registered agent, and the primary agent is another one.
C28_Witness ==
    /\ reg_log # <<>> /\ reg_log[1].n = 3
    /\ reg_log[1].config.id \in DOMAIN agents
    /\ reg_log[1].config.is_primary
    /\ ~agents[reg_log[1].config.id].is_primary
    /\ reg_log[1].ret = [id |-> reg_log[1].config.id,
                         agent |-> agents[reg_log[1].config.id]]
    /\ history[reg_log[1].config.id] = <<UserMessage>>
    /\ primary_agent \in DOMAIN agents /\ primary_agent # reg_log[1].config.id

(***************************************************************************)
(* Two runs in flight on one AgentManager: AsyncCueClient.send_message     *)
(* (_client.py 66-79) awaits a run of the manager it shares between its    *)
(* calls, and AgentManager.run and _execute_run (_agent_manager.py 32-127) *)
(* keep the primary and the active agent in fields of the manager.  A run  *)
(* gives up control at each await: the step of the active agent (line 72)  *)
(* and its dispatcher (line 100).                                          *)
(***************************************************************************)
\* the number of turns after which the model stops following a run
MaxTwoTurns == 1

\* the turn a run adds to a history, marked with the run that adds it
TurnOf(i, kind) == [run |-> i, kind |-> kind]

\* what the step of an agent returns: an ErrorResponse, a text, tool calls,
\* or tool calls with a transfer request
StepKinds == {"error", "text", "tool_use", "transfer"}

\* AgentManager.run up to the first await of _execute_run (lines 38-70 with
\* the turn counter at 0): primary_agent, active_agent and the user message
TwoRunsStart(i) ==
    /\ t_pc[i] = "idle"
    /\ \E agent_identifier \in DOMAIN agents :
         /\ primary_agent' = agent_identifier
         /\ active_agent' = agent_identifier
         /\ history' = add_message(history, agent_identifier, TurnOf(i, "user"))
         /\ t_made' = [t_made EXCEPT ![i] = {agent_identifier}]
    /\ t_pc' = [t_pc EXCEPT ![i] = "loop"]
    /\ UNCHANGED <<agents, conversation_context, applied, m_exc, t_md, t_turns, t_step>>
    /\ UNCHANGED <<dvars, lvars, rvars, cvars, avars, gvars, pvars, evars, bvars>>

\* lines 67-72: the turn budget, then the call of self.active_agent.run
TwoRunsLoopTop(i) ==
    /\ t_pc[i] = "loop" /\ t_turns[i] < MaxTwoTurns
    /\ \E o \in should_continue_run(t_turns[i] + 1, t_md) :
         /\ t_turns' = [t_turns EXCEPT ![i] = @ + 1]
         /\ IF o.cont
            THEN /\ t_pc' = [t_pc EXCEPT ![i] = "stepping"]
                 /\ t_step' = [t_step EXCEPT ![i] = active_agent]
            ELSE /\ t_pc' = [t_pc EXCEPT ![i] = "returned"]
                 /\ t_step' = t_step
    /\ UNCHANGED <<mvars, t_md, t_made>>
    /\ UNCHANGED <<dvars, lvars, rvars, cvars, avars, gvars, pvars, evars, bvars>>

\* lines 75-102: the step returned; the response is added to
\* self.active_agent as the field reads now
TwoRunsStepReturns(i) ==
    /\ t_pc[i] = "stepping"
    /\ \E kind \in StepKinds :
         LET hist == add_message(history, active_agent, TurnOf(i, kind))
         IN  CASE kind = "error" ->
                    /\ history' = hist
                    /\ t_pc' = [t_pc EXCEPT ![i] = "loop"]
                    /\ UNCHANGED <<active_agent, conversation_context, t_step, t_made>>
               [] kind = "text" /\ agents[active_agent].is_primary ->
                    /\ history' = hist
                    /\ t_pc' = [t_pc EXCEPT ![i] = "returned"]
                    /\ UNCHANGED <<active_agent, conversation_context, t_step, t_made>>
               [] kind = "text" /\ ~agents[active_agent].is_primary ->
                    LET r == hand_off(hist, chat_with_agent(active_agent, primary_agent,
                                                            TurnOf(i, "context")))
                    IN  /\ active_agent' = r.active_agent
                        /\ conversation_context' = r.conversation_context
                        /\ history' = r.history
                        /\ t_made' = [t_made EXCEPT ![i] = @ \cup {r.active_agent}]
                        /\ t_pc' = [t_pc EXCEPT ![i] = "loop"]
                        /\ t_step' = t_step
               [] OTHER ->
                    /\ history' = hist
                    /\ t_pc' = [t_pc EXCEPT ![i] = IF kind = "transfer" THEN "transferring"
                                                   ELSE "dispatching"]
                    /\ t_step' = [t_step EXCEPT ![i] = active_agent]
                    /\ UNCHANGED <<active_agent, conversation_context, t_made>>
    /\ UNCHANGED <<agents, primary_agent, applied, m_exc, t_md, t_turns>>
    /\ UNCHANGED <<dvars, lvars, rvars, cvars, avars, gvars, pvars, evars, bvars>>

\* lines 103-110, no handoff: the tool results are added to
\* self.active_agent as the field reads now
TwoRunsToolResults(i) ==
    /\ t_pc[i] = "dispatching"
    /\ history' = add_message(history, active_agent, TurnOf(i, "tool_results"))
    /\ t_pc' = [t_pc EXCEPT ![i] = "loop"]
    /\ UNCHANGED <<agents, active_agent, primary_agent, conversation_context, applied,
                   m_exc, t_md, t_turns, t_step, t_made>>
    /\ UNCHANGED <<dvars, lvars, rvars, cvars, avars, gvars, pvars, evars, bvars>>

\* lines 103-108: the dispatcher returned a handoff, which is applied
TwoRunsHandOff(i) ==
    /\ t_pc[i] = "transferring"
    /\ \E to \in AgentIds :
         LET r == hand_off(history, chat_with_agent(t_step[i], to, TurnOf(i, "context")))
         IN  /\ active_agent' = r.active_agent
             /\ conversation_context' = r.conversation_context
             /\ history' = r.history
             /\ IF r.raised
                THEN /\ t_pc' = [t_pc EXCEPT ![i] = "raised"]
                     /\ t_made' = t_made
                ELSE /\ t_pc' = [t_pc EXCEPT ![i] = "loop"]
                     /\ t_made' = [t_made EXCEPT ![i] = @ \cup {to}]
    /\ UNCHANGED <<agents, primary_agent, applied, m_exc, t_md, t_turns, t_step>>
    /\ UNCHANGED <<dvars, lvars, rvars, cvars, avars, gvars, pvars, evars, bvars>>

InitTwoRuns ==
    /\ agents \in {r \in RunRegistries : \A a \in DOMAIN r : ~r[a].is_test}
    /\ active_agent = None
    /\ primary_agent = IF agents["a"].is_primary THEN "a" ELSE None
    /\ history = [a \in AgentIds |-> <<>>]
    /\ conversation_context = [a \in AgentIds |-> <<>>]
    /\ applied = <<>> /\ m_exc = "none"
    /\ t_md \in [max_turns : 1..MaxTwoTurns, enable_turn_debug : {FALSE}]
    /\ t_pc = [i \in Runs |-> "idle"] /\ t_turns = [i \in Runs |-> 0]
    /\ t_step = [i \in Runs |-> None] /\ t_made = [i \in Runs |-> {}]
    /\ DispatchIdle /\ LegacyIdle /\ RunIdle /\ ArgsIdle /\ RegistryIdle /\ CompletionIdle /\ CachingIdle /\ EditIdle /\ BashIdle

NextTwoRuns ==
    \/ \E i \in Runs : TwoRunsStart(i)
    \/ \E i \in Runs : TwoRunsLoopTop(i)
    \/ \E i \in Runs : TwoRunsStepReturns(i)
    \/ \E i \in Runs : TwoRunsToolResults(i)
    \/ \E i \in Runs : TwoRunsHandOff(i)

SpecTwoRuns == InitTwoRuns /\ [][NextTwoRuns]_vars

(***************************************************************************)
(* Properties of two runs in flight.                                       *)
(***************************************************************************)
\* run i awaits the step or the dispatcher of an agent
InFlight(i) == t_pc[i] \in {"stepping", "dispatching", "transferring"}

\* the turns of kind response or tool results that run i added to agent a
ResultsOf(i, a) ==
    {k \in 1..Len(history[a]) :
        history[a][k].run = i /\ history[a][k].kind \notin {"user", "context"}}

\* C31 (as claimed): two runs in flight on one manager do not interfere:
\* the responses and tool results of a run are added only to agents that
\* run made active, and while a run awaits the step of an agent no start
\* and no handoff of another run changes the active agent under it.
C31_RunsDoNotInterfere ==
    \A i \in Runs :
        /\ \A a \in AgentIds : ResultsOf(i, a) # {} => a \in t_made[i]
        /\ InFlight(i) => active_agent = t_step[i]

(***************************************************************************)
(* Prompt caching of the Anthropic client: _inject_prompt_caching          *)
(* (anthropic_client.py 161-179) marks the last block of a message's       *)
(* content with cache_control.  The content lists are those of the         *)
(* caller's messages (format_message, line 139, copies the reference), so  *)
(* a mark stays on the message for the next request.                       *)
(***************************************************************************)
\* the longest message list
MaxMessages == 5
\* num_breakpoints of _inject_prompt_caching
NumBreakpoints == 3

\* the messages the program appends: content is a string, an empty list or
\* a list of blocks, and no block carries cache_control yet
NewMessages ==
    [role : {"user", "assistant"}, content : {"str", "list"}, cache_control : {FALSE}]
    \cup {[role |-> "user", content |-> "empty", cache_control |-> FALSE]}

\* message["role"] == "user" and isinstance(message["content"], list)
UserList(m) == m.role = "user" /\ m.content \in {"list", "empty"}

RECURSIVE inject(_, _, _)
\* the loop of _inject_prompt_caching from message i down to the oldest
inject(msgs, i, breakpoints_remaining) ==
    IF i = 0
    THEN msgs
    ELSE IF UserList(msgs[i]) /\ msgs[i].content # "empty"
    THEN IF breakpoints_remaining # 0
         THEN inject([msgs EXCEPT ![i].cache_control = TRUE], i - 1,
                     breakpoints_remaining - 1)
         ELSE [msgs EXCEPT ![i].cache_control = FALSE]
    ELSE inject(msgs, i - 1, breakpoints_remaining)

\* the program appends a message to the list
CachingAppend ==
    /\ p_pc \in {"appended", "injected"} /\ Len(p_messages) < MaxMessages
    /\ \E m \in NewMessages : p_messages' = Append(p_messages, m)
    /\ p_pc' = "appended"
    /\ UNCHANGED <<dvars, lvars, mvars, rvars, cvars, avars, gvars, tvars, evars, bvars>>

\* self._inject_prompt_caching(messages)
InjectPromptCaching ==
    /\ p_pc \in {"appended", "injected"}
    /\ p_messages' = inject(p_messages, Len(p_messages), NumBreakpoints)
    /\ p_pc' = "injected"
    /\ UNCHANGED <<dvars, lvars, mvars, rvars, cvars, avars, gvars, tvars, evars, bvars>>

InitCaching ==
    /\ p_messages = <<>> /\ p_pc = "appended"
    /\ DispatchIdle /\ LegacyIdle /\ ManagerIdle /\ RunIdle /\ ArgsIdle /\ RegistryIdle /\ CompletionIdle /\ TwoRunsIdle /\ EditIdle /\ BashIdle

NextCaching ==
    \/ CachingAppend
    \/ InjectPromptCaching

SpecCaching == InitCaching /\ [][NextCaching]_vars

(***************************************************************************)
(* Properties of prompt caching.                                           *)
(***************************************************************************)
\* the positions of the user messages whose list content carries cache_control
Marked == {k \in 1..Len(p_messages) : UserList(p_messages[k]) /\ p_messages[k].cache_control}

\* the positions of the user messages with a content list that has a block
Markable == {k \in 1..Len(p_messages) :
               UserList(p_messages[k]) /\ p_messages[k].content # "empty"}

\* C36 (as claimed): after _inject_prompt_caching at most num_breakpoints
\* user messages with list content carry cache_control, and they are the
\* newest ones, on every message list reached by appending messages and
\* calling _inject_prompt_caching again.
C36_NewestBreakpointsOnly ==
    p_pc = "injected" =>
        /\ Cardinality(Marked) <= NumBreakpoints
        /\ \A k \in Marked :
             Cardinality({j \in Markable : j > k}) < NumBreakpoints

(***************************************************************************)
(* The edit tool: EditTool.edit (tools/edit.py) with the commands create,  *)
(* str_replace, insert and undo_edit.  A text is the sequence of its       *)
(* lines (text.split("\n")); a line is "", "a", a line "T" that holds a    *)
(* tab, or "S", the line expandtabs makes of "T".  old_str and new_str are *)
(* single lines.  The command view reads only and is left out.             *)
(***************************************************************************)
\* the most lines a file holds
MaxLines == 2
\* the number of calls after which the model stops
MaxEdits == 3

LineSyms == {"", "a", "T", "S"}

\* the empty string: one empty line
EmptyText == <<"">>

\* the texts a call hands to create
Texts == {EmptyText, <<"a">>, <<"T", "a">>}

\* the lines a call hands over as new_str
NewStrs == {"", "a", "T"}

EditPaths == {"/f", "/g", "f"}

\* Path.is_absolute
is_absolute(path) == path \in {"/f", "/g"}

AbsPaths == {path \in EditPaths : is_absolute(path)}

Missing == [exists |-> FALSE, text |-> <<>>]

File(text) == [exists |-> TRUE, text |-> text]

\* str.expandtabs
expandtabs(text) == [k \in DOMAIN text |-> IF text[k] = "T" THEN "S" ELSE text[k]]

\* file_content.count(old_str)
count(text, old_str) == Cardinality({k \in DOMAIN text : text[k] = old_str})

\* file_content.replace(old_str, new_str)
replace(text, old_str, new_str) ==
    [k \in DOMAIN text |-> IF text[k] = old_str THEN new_str ELSE text[k]]

\* the calls of edit: file_text for create, old_str and new_str for
\* str_replace, insert_line and new_str for insert
EditCalls ==
    [command : {"create"}, path : EditPaths, file_text : Texts]
    \cup [command : {"str_replace"}, path : EditPaths, old_str : LineSyms, new_str : NewStrs]
    \cup [command : {"insert"}, path : EditPaths, insert_line : -1..(MaxLines + 1),
          new_str : NewStrs]
    \cup [command : {"undo_edit"}, path : EditPaths]

\* what a call leaves: it raised ToolError or not, the files and the history
Outcome(raised, files, hist) == [raised |-> raised, files |-> files, history |-> hist]

\* mutant: create is not refused for a path that exists
validate_path_Overwrite(command, path, files) ==
    \/ ~is_absolute(path)
    \/ ~files[path].exists /\ command # "create"

\* EditTool.validate_path raises
validate_path(command, path, files) ==
    \/ ~is_absolute(path)
    \/ ~files[path].exists /\ command # "create"
    \/ files[path].exists /\ command = "create"

\* lines 110-115
create(c, files, hist) ==
    IF c.file_text = EmptyText
    THEN Outcome(TRUE, files, hist)
    ELSE Outcome(FALSE, [files EXCEPT ![c.path] = File(c.file_text)],
                 [hist EXCEPT ![c.path] = Append(@, c.file_text)])

\* lines 116-119 and EditTool.str_replace
str_replace(c, files, hist) ==
    LET file_content == expandtabs(files[c.path].text)
        old_str == expandtabs(<<c.old_str>>)[1]
        new_str == expandtabs(<<c.new_str>>)[1]
    IN  IF c.old_str = "" \/ count(file_content, old_str) # 1
        THEN Outcome(TRUE, files, hist)
        ELSE Outcome(FALSE,
                     [files EXCEPT ![c.path] = File(replace(file_content, old_str, new_str))],
                     [hist EXCEPT ![c.path] = Append(@, file_content)])

\* lines 120-125 and EditTool.insert
insert(c, files, hist) ==
    LET file_text == expandtabs(files[c.path].text)
        new_str == expandtabs(<<c.new_str>>)
        n_lines_file == Len(file_text)
    IN  IF c.new_str = "" \/ c.insert_line < 0 \/ c.insert_line > n_lines_file
        THEN Outcome(TRUE, files, hist)
        ELSE Outcome(FALSE,
                     [files EXCEPT ![c.path] =
                        File(SubSeq(file_text, 1, c.insert_line) \o new_str
                             \o SubSeq(file_text, c.insert_line + 1, n_lines_file))],
                     [hist EXCEPT ![c.path] = Append(@, file_text)])

\* EditTool.undo_edit
undo_edit(c, files, hist) ==
    IF hist[c.path] = <<>>
    THEN Outcome(TRUE, files, hist)
    ELSE Outcome(FALSE,
                 [files EXCEPT ![c.path] = File(hist[c.path][Len(hist[c.path])])],
                 [hist EXCEPT ![c.path] = SubSeq(@, 1, Len(@) - 1)])

\* EditTool.edit
edit(c, files, hist) ==
    IF validate_path(c.command, c.path, files)
    THEN Outcome(TRUE, files, hist)
    ELSE CASE c.command = "create" -> create(c, files, hist)
           [] c.command = "str_replace" -> str_replace(c, files, hist)
           [] c.command = "insert" -> insert(c, files, hist)
           [] c.command = "undo_edit" -> undo_edit(c, files, hist)

\* one call of the tool; e_before follows the edits that succeed
EditCall ==
    /\ e_calls < MaxEdits
    /\ \E c \in EditCalls :
         LET o == edit(c, e_files, file_history)
         IN  /\ \A path \in AbsPaths : Len(o.files[path].text) <= MaxLines
             /\ e_files' = o.files
             /\ file_history' = o.history
             /\ e_last' = c
             /\ e_out' = IF o.raised THEN "ToolError" ELSE "ok"
             /\ e_before' =
                  IF o.raised THEN e_before
                  ELSE IF c.command = "undo_edit"
                  THEN [e_before EXCEPT ![c.path] = SubSeq(@, 1, Len(@) - 1)]
                  ELSE [e_before EXCEPT ![c.path] = Append(@, e_files[c.path])]
    /\ e_calls' = e_calls + 1
    /\ UNCHANGED <<dvars, lvars, mvars, rvars, cvars, avars, gvars, tvars, pvars, bvars>>

\* a new EditTool (lines 29-32) on a file system that holds "/f" or not
InitEdit ==
    /\ e_files \in [AbsPaths -> {Missing} \cup {File(t) : t \in Texts \ {EmptyText}}]
    /\ e_files["/g"] = Missing
    /\ file_history = [path \in EditPaths |-> <<>>]
    /\ e_before = [path \in EditPaths |-> <<>>]
    /\ e_last = <<>> /\ e_out = "none" /\ e_calls = 0
    /\ DispatchIdle /\ LegacyIdle /\ ManagerIdle /\ RunIdle /\ ArgsIdle /\ RegistryIdle /\ CompletionIdle /\ TwoRunsIdle /\ CachingIdle /\ BashIdle

NextEdit == EditCall

SpecEdit == InitEdit /\ [][NextEdit]_vars

(***************************************************************************)
(* Properties of the edit tool.                                            *)
(***************************************************************************)
\* this step is a call of the tool
EditCalled == e_calls' = e_calls + 1

\* this step is an undo_edit that succeeded
UndoSucceeds == EditCalled /\ e_out' = "ok" /\ e_last'.command = "undo_edit"

\* C37 (as claimed): undo_edit reverts the last edit of the path: after any
\* successful edits (create, str_replace, insert) it restores the file as
\* it was immediately before the most recent edit not yet undone, so that
\* k undo_edit calls in a row revert the last k edits in reverse order.
C37_UndoRevertsLastEdit ==
    [][UndoSucceeds =>
          LET path == e_last'.path
          IN  e_files'[path] = e_before[path][Len(e_before[path])]]_vars

\* the calls the tool has to reject on the files and the history it finds
Rejected(c, files, hist) ==
    IF ~is_absolute(c.path) THEN TRUE
    ELSE IF c.command = "create" THEN files[c.path].exists
    ELSE IF ~files[c.path].exists THEN TRUE
    ELSE CASE c.command = "str_replace" ->
                count(expandtabs(files[c.path].text), expandtabs(<<c.old_str>>)[1]) # 1
           [] c.command = "insert" ->
                c.insert_line < 0 \/ c.insert_line > Len(files[c.path].text)
           [] c.command = "undo_edit" -> hist[c.path] = <<>>

\* C38: an edit command that is rejected (create on a path that exists,
\* another command on a path that is missing, str_replace with no or with
\* several occurrences, insert with a line outside [0, n], undo_edit with
\* no history, a path that is not absolute) raises ToolError, and a call
\* that raises ToolError leaves the content and the undo history of every
\* path unchanged.
C38_RejectedEditChangesNothing ==
    [][EditCalled =>
          /\ Rejected(e_last', e_files, file_history) => e_out' = "ToolError"
          /\ (e_out' = "ToolError") =>
                e_files' = e_files /\ file_history' = file_history]_vars

\* C38 witness: after an insert made "/f" hold the line "a" twice, a
\* str_replace of "a" was rejected; the file and the history of one entry
\* are as the insert left them.
C38_Witness ==
    /\ e_out = "ToolError" /\ e_calls = 2
    /\ e_last.command = "str_replace" /\ e_last.path = "/f" /\ e_last.old_str = "a"
    /\ e_files["/f"] = File(<<"a", "a">>)
    /\ file_history["/f"] = <<(<<"a">>)>>

(***************************************************************************)
(* The bash tool: BashTool.bash and _BashSession (tools/bash_tool.py).     *)
(* The environment decides whether the shell process can be created,       *)
(* whether a command returns before _timeout, and when the shell exits.    *)
(***************************************************************************)
\* the number of calls after which the model stops
MaxCalls == 4

\* the calls of bash: command is None or a command; spawn and returns are
\* the answers of the environment if the call comes to ask for them
BashCalls == [restart : BOOLEAN, command : BOOLEAN, spawn : BOOLEAN, returns : BOOLEAN]

\* what a call leaves: its result or exception, the session, and whether
\* it created a session or wrote a command
Left(out, session, created, wrote) ==
    [out |-> out, session |-> session, created |-> created, wrote |-> wrote]

\* _BashSession() followed by start(): create_subprocess_shell returns a
\* process, or raises and leaves the session not started
start(id, spawn) ==
    IF spawn
    THEN [id |-> id, started |-> TRUE, timed_out |-> FALSE, process |-> "running"]
    ELSE [id |-> id, started |-> FALSE, timed_out |-> FALSE, process |-> "none"]

\* _BashSession.stop raises
stop(session) == ~session.started

\* mutant: the latch of a timeout is not looked at
run_NoLatch(session, returns) ==
    IF ~session.started
    THEN Left("ToolError: not started", session, FALSE, FALSE)
    ELSE IF session.process = "exited"
    THEN Left("must be restarted: exited", session, FALSE, FALSE)
    ELSE IF returns
    THEN Left("CLIResult", session, FALSE, TRUE)
    ELSE Left("ToolError: timed out", [session EXCEPT !.timed_out = TRUE], FALSE, TRUE)

\* _BashSession.run
run_command(session, returns) ==
    IF ~session.started
    THEN Left("ToolError: not started", session, FALSE, FALSE)
    ELSE IF session.process = "exited"
    THEN Left("must be restarted: exited", session, FALSE, FALSE)
    ELSE IF session.timed_out
    THEN Left("ToolError: timed out", session, FALSE, FALSE)
    ELSE IF returns
    THEN Left("CLIResult", session, FALSE, TRUE)
    ELSE Left("ToolError: timed out", [session EXCEPT !.timed_out = TRUE], FALSE, TRUE)

\* BashTool.bash
bash(c, session, sessions) ==
    IF c.restart
    THEN IF session # NoSession /\ stop(session)
         THEN Left("ToolError: not started", session, FALSE, FALSE)
         ELSE Left(IF c.spawn THEN "restarted" ELSE "OSError",
                   start(sessions + 1, c.spawn), TRUE, FALSE)
    ELSE IF session = NoSession /\ ~c.spawn
    THEN Left("OSError", start(sessions + 1, FALSE), TRUE, FALSE)
    ELSE LET s == IF session = NoSession THEN start(sessions + 1, TRUE) ELSE session
             r == IF c.command THEN run_command(s, c.returns)
                  ELSE Left("ToolError: no command", s, FALSE, FALSE)
         IN  [r EXCEPT !.created = (session = NoSession)]

\* one call of the tool
BashCall ==
    /\ b_calls < MaxCalls
    /\ \E c \in BashCalls :
         LET o == bash(c, b_session, b_sessions)
         IN  /\ b_session' = o.session
             /\ b_sessions' = IF o.created THEN b_sessions + 1 ELSE b_sessions
             /\ b_written' = IF o.wrote THEN b_written + 1 ELSE b_written
             /\ b_last' = c
             /\ b_out' = o.out
    /\ b_calls' = b_calls + 1
    /\ UNCHANGED <<dvars, lvars, mvars, rvars, cvars, avars, gvars, tvars, pvars, evars>>

\* the shell process ends (a command such as exit, or a signal):
\* self._process.returncode is set
ShellExits ==
    /\ b_session.process = "running"
    /\ b_session' = [b_session EXCEPT !.process = "exited"]
    /\ UNCHANGED <<b_sessions, b_written, b_last, b_out, b_calls>>
    /\ UNCHANGED <<dvars, lvars, mvars, rvars, cvars, avars, gvars, tvars, pvars, evars>>

\* a new BashTool (lines 135-138)
InitBash ==
    /\ b_session = NoSession /\ b_sessions = 0 /\ b_written = 0
    /\ b_last = <<>> /\ b_out = "none" /\ b_calls = 0
    /\ DispatchIdle /\ LegacyIdle /\ ManagerIdle /\ RunIdle /\ ArgsIdle /\ RegistryIdle /\ CompletionIdle /\ TwoRunsIdle /\ CachingIdle /\ EditIdle

NextBash ==
    \/ BashCall
    \/ ShellExits

SpecBash == InitBash /\ [][NextBash]_vars

(***************************************************************************)
(* Properties of the bash tool.                                            *)
(***************************************************************************)
\* this step is a call of the tool
BashCalled == b_calls' = b_calls + 1

\* this step is a call with a command, on a session a command timed out on
CommandAfterTimeout ==
    BashCalled /\ ~b_last'.restart /\ b_last'.command /\ b_session.timed_out

\* a command is written only to a session that has been started
WrittenToStarted ==
    (b_written' # b_written) => b_session'.started /\ b_session.process # "exited"

\* C39 (as claimed): once a command has timed out on a session, every later
\* command raises ToolError ("must be restarted") without being written to
\* the shell, until the tool is called with restart; and a command is never
\* sent to a session that has not been started.
C39_TimedOutSessionRefuses ==
    [][/\ CommandAfterTimeout =>
            b_out' = "ToolError: timed out" /\ b_written' = b_written
       /\ WrittenToStarted]_vars

\* C39 (amended): once a command has timed out on a session, no later
\* command is written to the shell until the tool is called with restart:
\* while the shell process lives the command raises ToolError ("must be
\* restarted"), once the shell has exited it returns the result "tool must
\* be restarted"; the session stays as it is; and a command is never sent
\* to a session that has not been started.
C39_TimedOutSessionRefuses_Amended ==
    [][/\ CommandAfterTimeout =>
            /\ b_written' = b_written
            /\ b_session' = b_session
            /\ b_out' = IF b_session.process = "exited"
                        THEN "must be restarted: exited" ELSE "ToolError: timed out"
       /\ WrittenToStarted]_vars

\* C39 witness: a command timed out, the shell exited afterwards, and the
\* next command was answered with the exit of the shell, unwritten.
C39_Witness ==
    /\ b_out = "must be restarted: exited"
    /\ b_session.timed_out /\ b_session.process = "exited"
    /\ b_written = 1 /\ b_calls = 2

\* this step is a restart in which the shell process, if the call came to
\* create one, could be created
RestartCalled == BashCalled /\ b_last'.restart /\ b_last'.spawn

\* C40 (as claimed): bash(restart=True) ends with a fresh, started session
\* whose timed-out latch is clear and reports "tool has been restarted.",
\* whatever state the session before was in (never created, running,
\* exited, timed out, created but not started).
C40_RestartAlwaysRecovers ==
    [][RestartCalled =>
          /\ b_out' = "restarted"
          /\ b_session'.id > b_session.id
          /\ b_session'.started /\ ~b_session'.timed_out
          /\ b_session'.process = "running"]_vars

====
